---- MODULE Spec2Model ----
(***************************************************************************)
(* Model of the c3 front-end code generator (ppci/c3/codegenerator.py) and *)
(* of the task runner (ppci/tasks.py).                                     *)
(*                                                                         *)
(* The generator is modelled as a state machine over the fields of         *)
(* CodeGenerator and of its irutils.Builder: every handler of the          *)
(* statement lowerer is one action (cut only where the code recurses into  *)
(* gen_stmt), and the expression and condition lowerers are operators on   *)
(* the generator state, computed in the order of the code.  The AST is an  *)
(* input and is chosen node by node, when gen_stmt reaches the node.  A    *)
(* statement position holds a compound, whose statements are given one by  *)
(* one (a single statement is lowered as the compound of it is: the        *)
(* compound branch of gen_stmt emits nothing of its own).                  *)
(***************************************************************************)
EXTENDS Integers, Sequences, FiniteSets, TLC

VARIABLES
    pc,         \* position of the driver (gencode): idle, functions, body, finish, done
    mod,        \* the ast.Module given to the gencode call in progress
    todo,       \* real_functions not lowered yet (the loop of gencode)
    stack,      \* pending continuations of gen_function / gen_stmt
    fuel,       \* number of functions and non-empty statements that may still be given
    gen,        \* fields of the generator, of its builder and of the diagnostics sink
    cur,        \* the last statement gen_stmt was given (empty ones and compounds aside)
    result,     \* how the last gencode call ended
    pin,        \* argument of a directly applied lowering function
    pout,       \* its result
    project,    \* the tasks.Project: its targets and their dependencies
    runner      \* position and locals of the TaskRunner.run call in progress

vars == <<pc, mod, todo, stack, fuel, gen, cur, result, pin, pout, project, runner>>

(***************************************************************************)
(* Bounds of the model.                                                    *)
(***************************************************************************)
MaxNodes == 3       \* functions and non-empty statements of the modules of one run
MaxCalls == 2       \* gencode calls on one generator
MaxStrLen == 2      \* characters of a string literal
MaxArgs == 2        \* arguments of a call
MaxSyms == 3        \* symbols of the inner scope of a function
MaxTargets == 4     \* targets added to a project
MaxDeps == 4        \* add_dependency calls on the targets of a project

(***************************************************************************)
(* Source types (ast.BaseType, PointerType, ArrayType, StructureType and   *)
(* named aliases) and the TypeContext queries.                             *)
(***************************************************************************)
Ty(k, elt) == [k |-> k, elt |-> elt]
NoTy == Ty("none", <<>>)
intType == Ty("int", <<>>)
doubleType == Ty("double", <<>>)
boolType == Ty("bool", <<>>)
byteType == Ty("byte", <<>>)
stringType == Ty("string", <<>>)
structType == Ty("struct", <<>>)
funcType == Ty("function", <<>>)
badType == Ty("undefined", <<>>)
PointerType(t) == Ty("ptr", <<t>>)
ArrayType(t) == Ty("array", <<t>>)
NamedType(t) == Ty("named", <<t>>)

RECURSIVE the_type(_)
the_type(t) == IF t.k = "named" THEN the_type(t.elt[1]) ELSE t

RECURSIVE equal_types(_, _)
equal_types(a, b) ==
    LET x == the_type(a)
        y == the_type(b)
    IN  IF x.k # y.k THEN FALSE
        ELSE IF x.k \in {"ptr", "array"} THEN equal_types(x.elt[1], y.elt[1])
        ELSE TRUE

isPointer(t) == t.k = "ptr"
isArray(t) == t.k = "array"

\* check_type raises a semantic error for an ill-formed type
RECURSIVE type_ok(_)
type_ok(t) ==
    IF t.k = "undefined" THEN FALSE
    ELSE IF t.elt = <<>> THEN TRUE
    ELSE type_ok(t.elt[1])

ArrayLen == 2
\* the struct type of the model: fields f:int at offset 0 and g:byte at offset 4
StructFields == {"f", "g"}
fieldType(f) == IF f = "f" THEN intType ELSE byteType
fieldOffset(f) == IF f = "f" THEN 0 ELSE 4

RECURSIVE size_of(_)
size_of(t) ==
    LET x == the_type(t)
    IN  CASE x.k = "int" -> 4
          [] x.k = "double" -> 8
          [] x.k = "bool" -> 1
          [] x.k = "byte" -> 1
          [] x.k = "string" -> 4
          [] x.k = "ptr" -> 4
          [] x.k = "struct" -> 5
          [] x.k = "array" -> ArrayLen * size_of(x.elt[1])
          [] OTHER -> 0

(***************************************************************************)
(* Diagnostics and exceptions.                                             *)
(***************************************************************************)
Msg(msg) ==
    [msg |-> msg, n |-> 0, t1 |-> NoTy, t2 |-> NoTy, loc |-> TRUE, call |-> 0, fn |-> 0]
MsgT(msg, t1, t2) == [Msg(msg) EXCEPT !.t1 = t1, !.t2 = t2]
MsgNoLoc(msg) == [Msg(msg) EXCEPT !.loc = FALSE]

FatalKinds == {"NotImplementedError", "AssertionError", "UnicodeEncodeError", "KeyError"}

(***************************************************************************)
(* IR values and instructions.                                             *)
(***************************************************************************)
Val(vk, b, i) == [vk |-> vk, b |-> b, i |-> i]
NoVal == Val("none", 0, 0)

Ins(op) == [op |-> op, name |-> "", ty |-> "", args |-> <<>>, lit |-> <<>>,
            cmp |-> "", t1 |-> 0, t2 |-> 0, vol |-> FALSE]
Const(lit, name, ty) == [Ins("Const") EXCEPT !.lit = lit, !.name = name, !.ty = ty]
Alloc(name, size) == [Ins("Alloc") EXCEPT !.name = name, !.lit = <<size>>, !.ty = "ptr"]
Load(addr, name, ty) == [Ins("Load") EXCEPT !.args = <<addr>>, !.name = name, !.ty = ty]
Store(value, addr, vol) == [Ins("Store") EXCEPT !.args = <<value, addr>>, !.vol = vol]
BinopI(a, op, b, name, ty) ==
    [Ins("Binop") EXCEPT !.args = <<a, b>>, !.cmp = op, !.name = name, !.ty = ty]
AddI(a, b, name, ty) == [Ins("Add") EXCEPT !.args = <<a, b>>, !.name = name, !.ty = ty]
MulI(a, b, name, ty) == [Ins("Mul") EXCEPT !.args = <<a, b>>, !.name = name, !.ty = ty]
IntToPtr(v, name) == [Ins("IntToPtr") EXCEPT !.args = <<v>>, !.name = name, !.ty = "ptr"]
PtrToInt(v, name) == [Ins("PtrToInt") EXCEPT !.args = <<v>>, !.name = name, !.ty = "i32"]
ByteToInt(v, name) == [Ins("ByteToInt") EXCEPT !.args = <<v>>, !.name = name, !.ty = "i32"]
IntToByte(v, name) == [Ins("IntToByte") EXCEPT !.args = <<v>>, !.name = name, !.ty = "i8"]
Addr(v, name, ty) == [Ins("Addr") EXCEPT !.args = <<v>>, !.name = name, !.ty = ty]
CallI(fname, args, name, ty) ==
    [Ins("Call") EXCEPT !.cmp = fname, !.args = args, !.name = name, !.ty = ty]
Jump(target) == [Ins("Jump") EXCEPT !.t1 = target]
CJump(a, op, b, t, f) == [Ins("CJump") EXCEPT !.args = <<a, b>>, !.cmp = op, !.t1 = t, !.t2 = f]
Return(v) == [Ins("Return") EXCEPT !.args = <<v>>]

Terminators == {"Jump", "CJump", "Return"}

(***************************************************************************)
(* AST nodes.  Every expression node has the same fields: kind, op (the    *)
(* operator, or the host type of a literal value), name (identifier, field *)
(* or callee), ty (target type of a cast or of sizeof), val (the literal,  *)
(* as a sequence of numbers) and sub (the operand nodes).                  *)
(***************************************************************************)
Expr(kind) == [kind |-> kind, op |-> "", name |-> "", ty |-> NoTy, val |-> <<>>, sub |-> <<>>]
Identifier(n) == [Expr("Identifier") EXCEPT !.name = n]
Literal(vt, v) == [Expr("Literal") EXCEPT !.op = vt, !.val = v]
IntLit(n) == Literal("int", <<n>>)
BoolLit(b) == Literal("bool", <<IF b THEN 1 ELSE 0>>)
FloatLit(n) == Literal("float", <<n>>)
StrLit(txt) == Literal("str", txt)
BinopE(a, op, b) == [Expr("Binop") EXCEPT !.op = op, !.sub = <<a, b>>]
Unop(op, a) == [Expr("Unop") EXCEPT !.op = op, !.sub = <<a>>]
Deref(p) == [Expr("Deref") EXCEPT !.sub = <<p>>]
Member(base, field) == [Expr("Member") EXCEPT !.name = field, !.sub = <<base>>]
Index(base, i) == [Expr("Index") EXCEPT !.sub = <<base, i>>]
TypeCast(to, a) == [Expr("TypeCast") EXCEPT !.ty = to, !.sub = <<a>>]
Sizeof(t) == [Expr("Sizeof") EXCEPT !.ty = t]
FunctionCall(proc, args) == [Expr("FunctionCall") EXCEPT !.name = proc, !.sub = args]

\* truth value of a literal, as the host language takes it in `if expr.val`
Truthy(e) ==
    IF e.op = "str" THEN e.val # <<>>
    ELSE IF e.op \in {"int", "bool", "float"} THEN e.val[1] # 0
    ELSE FALSE

(***************************************************************************)
(* Symbols of the source program (ast.Variable, ast.Constant,              *)
(* ast.Function and others), as resolve_symbol returns them.               *)
(***************************************************************************)
Symbol(name, cat, typ) ==
    [name |-> name, cat |-> cat, typ |-> typ, fn |-> 0, isParameter |-> FALSE,
     value |-> 0, params |-> <<>>, ret |-> NoTy, package |-> ""]
Variable(name, typ) == Symbol(name, "Variable", typ)
Parameter(name, typ) == [Symbol(name, "Variable", typ) EXCEPT !.isParameter = TRUE]
Constant(name, typ, value) == [Symbol(name, "Constant", typ) EXCEPT !.value = value]
Function(name, package, params, ret) ==
    [Symbol(name, "Function", funcType) EXCEPT !.params = params, !.ret = ret, !.package = package]

\* key of a symbol in varMap: the symbol object (its owner and its name)
SymKey(sym) == <<sym.fn, sym.name>>

(***************************************************************************)
(* irutils.Builder and the ir containers.                                  *)
(***************************************************************************)
NoModule == [name |-> "", variables |-> <<>>, functions |-> <<>>]
NewBlockRec(f) == [fn |-> f, ins |-> <<>>]

prepare(g) == [g EXCEPT !.m = NoModule, !.function = 0, !.block = 0, !.blocks = <<>>]

\* ir.Function: created with its entry position and its epilogue block
new_function(g, name) ==
    LET f == Len(g.m.functions) + 1
        entry == Len(g.blocks) + 1
        epiloog == Len(g.blocks) + 2
    IN  [g EXCEPT !.blocks = @ \o <<NewBlockRec(f), NewBlockRec(f)>>,
                  !.m.functions = Append(@, [name |-> name, params |-> <<>>,
                                             entry |-> entry, epiloog |-> epiloog])]

setFunction(g, f) ==
    [g EXCEPT !.function = f, !.block = IF f = 0 THEN 0 ELSE g.m.functions[f].entry]

newBlock(g) == [g EXCEPT !.blocks = Append(@, NewBlockRec(g.function))]
\* the block newBlock has just created
Fresh(g) == Len(g.blocks)

setBlock(g, b) == [g EXCEPT !.block = b]

emit(g, ins) == [g EXCEPT !.blocks[g.block].ins = Append(@, ins)]
\* the instruction emit has just appended, as a value
Emitted(g) == Val("ins", g.block, Len(g.blocks[g.block].ins))

add_variable(g, name, size) ==
    [g EXCEPT !.m.variables = Append(@, [name |-> name, size |-> size])]
add_parameter(g, name, ty) ==
    [g EXCEPT !.m.functions[g.function].params = Append(@, [name |-> name, ty |-> ty])]

\* the ir type of a value: of its instruction, of a global ir.Variable, of a Parameter
TyOf(g, v) ==
    CASE v.vk = "ins" -> g.blocks[v.b].ins[v.i].ty
      [] v.vk = "glob" -> "ptr"
      [] v.vk = "param" -> g.m.functions[v.b].params[v.i].ty
      [] OTHER -> ""

(***************************************************************************)
(* Results of the lowering operators: the generator after the call, the    *)
(* value returned, the annotations written on the node (typ, lvalue), and  *)
(* the exception raised, if any, with the message of a SemanticError.      *)
(***************************************************************************)
Ok(g, val, typ, lvalue) ==
    [g |-> g, val |-> val, typ |-> typ, lvalue |-> lvalue, exc |-> "none", err |-> Msg("")]
Raise(g, err) ==
    [g |-> g, val |-> NoVal, typ |-> NoTy, lvalue |-> FALSE, exc |-> "SemanticError", err |-> err]
Fatal(g, kind) ==
    [g |-> g, val |-> NoVal, typ |-> NoTy, lvalue |-> FALSE, exc |-> kind, err |-> Msg("")]

\* the statements after a call: an exception raised by the call leaves the
\* handler there, otherwise the rest K runs on what the call returned
Try(r, K(_)) == IF r.exc # "none" THEN r ELSE K(r)
\* a local variable: the rest K of the handler runs on the value bound to it
With(v, K(_)) == K(v)

\* a diagnostic as the sink keeps it: with the gencode call and the function
\* its location lies in
Located(g, err) == [err EXCEPT !.call = g.call, !.fn = g.function]

\* error that reports and leaves the module valid
error_keeps_ok(g, err) == [g EXCEPT !.diag = Append(@, Located(g, err))]
\* CodeGenerator.error
error(g, err) == [g EXCEPT !.ok = FALSE, !.diag = Append(@, Located(g, err))]

\* pack('>I', n): most significant byte first
PackU32_big_endian(n) ==
    <<(n \div 16777216) % 256, (n \div 65536) % 256, (n \div 256) % 256, n % 256>>
\* pack('<I', n): four bytes, least significant first
PackU32(n) == <<n % 256, (n \div 256) % 256, (n \div 65536) % 256, (n \div 16777216) % 256>>
\* txt.encode('ascii') of a text given by its code points
IsAscii(txt) == \A i \in 1..Len(txt) : txt[i] < 128
AsciiEncode(txt) == [i \in 1..Len(txt) |-> txt[i]]
pack_string(txt) == PackU32(Len(txt)) \o AsciiEncode(txt)

(***************************************************************************)
(* TypeContext queries that depend on the program.                         *)
(***************************************************************************)
\* resolve_symbol: the symbol an identifier names in the scope of the function
InScope(g, name) == name \in DOMAIN g.scope
resolve_symbol(g, name) == g.scope[name]

\* get_common_type: the type both operands of a binop are brought to
HasCommonType(ta, tb) ==
    \/ equal_types(ta, tb)
    \/ isPointer(the_type(ta)) /\ equal_types(tb, intType)
    \/ isPointer(the_type(tb)) /\ equal_types(ta, intType)
get_common_type(ta, tb) ==
    IF equal_types(ta, tb) THEN ta
    ELSE IF isPointer(the_type(ta)) THEN ta
    ELSE tb

(***************************************************************************)
(* Type lowering and coercion.                                             *)
(***************************************************************************)
\* get_ir_type with a floating point type for double
get_ir_type_f64(cty) ==
    LET t == the_type(cty)
    IN  IF equal_types(t, intType) THEN "i32"
        ELSE IF equal_types(t, doubleType) THEN "f64"
        ELSE IF equal_types(t, boolType) THEN "i32"
        ELSE IF equal_types(t, byteType) THEN "i8"
        ELSE IF isPointer(t) THEN "ptr"
        ELSE ""

\* get_ir_type: "" stands for the SemanticError of the last branch
get_ir_type(cty) ==
    LET t == the_type(cty)
    IN  IF equal_types(t, intType) THEN "i32"
        ELSE IF equal_types(t, doubleType) THEN "i32"
        ELSE IF equal_types(t, boolType) THEN "i32"
        ELSE IF equal_types(t, byteType) THEN "i8"
        ELSE IF isPointer(t) THEN "ptr"
        ELSE ""

do_coerce(g, ir_val, typ, wanted_typ) ==
    IF equal_types(typ, wanted_typ) THEN Ok(g, ir_val, wanted_typ, FALSE)
    ELSE IF equal_types(intType, typ) /\ isPointer(wanted_typ)
        THEN LET g1 == emit(g, IntToPtr(ir_val, "coerce"))
             IN  Ok(g1, Emitted(g1), wanted_typ, FALSE)
    ELSE Raise(g, MsgT("Cannot use", typ, wanted_typ))

ArithOps == {"+", "-", "*", "/", "<<", ">>", "|", "&"}
CompareOps == {"==", ">", "<", "!=", "<=", ">="}

(***************************************************************************)
(* Expression lowerer.                                                     *)
(***************************************************************************)
RECURSIVE gen_expr_code(_, _), make_rvalue_expr(_, _), gen_args(_, _, _, _)

\* the list comprehension of gen_function_call: the arguments in order; vals
\* and typs collect the values and the types written on the argument nodes
gen_args(g, args, vals, typs) ==
    IF args = <<>> THEN [g |-> g, vals |-> vals, typs |-> typs, exc |-> "none", err |-> Msg("")]
    ELSE With(make_rvalue_expr(g, Head(args)), LAMBDA r :
         IF r.exc # "none"
             THEN [g |-> r.g, vals |-> vals, typs |-> typs, exc |-> r.exc, err |-> r.err]
         ELSE gen_args(r.g, Tail(args), Append(vals, r.val), Append(typs, r.typ)))

gen_identifier(g, expr) ==
    IF ~InScope(g, expr.name) THEN Raise(g, Msg("Undefined"))
    ELSE LET target == resolve_symbol(g, expr.name)
         IN  IF target.cat = "Variable"
                 THEN IF SymKey(target) \in DOMAIN g.varMap
                          THEN Ok(g, g.varMap[SymKey(target)], target.typ, TRUE)
                      ELSE Fatal(g, "KeyError")
             ELSE IF target.cat = "Constant"
                 THEN With(emit(g, Const(<<target.value>>, target.name, "i32")), LAMBDA g1 :
                      Ok(g1, Emitted(g1), target.typ, FALSE))
             ELSE Fatal(g, "NotImplementedError")

\* address-of that takes the value of its operand
gen_unop_loaded(g, expr) ==
    IF expr.op = "&"
        THEN Try(gen_expr_code(g, expr.sub[1]), LAMBDA e :
             IF ~e.lvalue THEN Raise(e.g, Msg("No valid lvalue"))
             ELSE Try(make_rvalue_expr(g, expr.sub[1]), LAMBDA ra :
                  Ok(ra.g, ra.val, PointerType(ra.typ), FALSE)))
    ELSE Fatal(g, "NotImplementedError")

gen_unop(g, expr) ==
    IF expr.op = "&"
        THEN Try(gen_expr_code(g, expr.sub[1]), LAMBDA ra :
             IF ~ra.lvalue THEN Raise(ra.g, Msg("No valid lvalue"))
             ELSE Ok(ra.g, ra.val, PointerType(ra.typ), FALSE))
    ELSE Fatal(g, "NotImplementedError")

gen_dereference(g, expr) ==
    Try(gen_expr_code(g, expr.sub[1]), LAMBDA ra :
    LET ptr_typ == the_type(ra.typ)
    IN  IF ~isPointer(ptr_typ) THEN Raise(ra.g, Msg("Cannot deref non-pointer"))
        ELSE With(emit(ra.g, Load(ra.val, "deref", get_ir_type(ptr_typ))), LAMBDA g1 :
             Ok(g1, Emitted(g1), ptr_typ.elt[1], TRUE)))

gen_binop(g, expr) ==
    Try(make_rvalue_expr(g, expr.sub[1]), LAMBDA ra :
    Try(make_rvalue_expr(ra.g, expr.sub[2]), LAMBDA rb :
    IF ~HasCommonType(ra.typ, rb.typ)
        THEN Raise(rb.g, MsgT("Types do not commute", ra.typ, rb.typ))
    ELSE IF expr.op \notin ArithOps THEN Raise(rb.g, MsgNoLoc("Cannot use"))
    ELSE
    LET common_type == get_common_type(ra.typ, rb.typ)
    IN
    Try(do_coerce(rb.g, ra.val, ra.typ, common_type), LAMBDA ca :
    Try(do_coerce(ca.g, rb.val, rb.typ, common_type), LAMBDA cb :
    With(emit(cb.g, BinopI(ca.val, expr.op, cb.val, "binop", TyOf(cb.g, ca.val))), LAMBDA g1 :
    Ok(g1, Emitted(g1), common_type, FALSE))))))

gen_member_expr(g, expr) ==
    Try(gen_expr_code(g, expr.sub[1]), LAMBDA rb :
    LET basetype == the_type(rb.typ)
    IN  IF basetype.k # "struct"
            THEN Raise(rb.g, MsgT("Cannot select field of non-structure type", basetype, NoTy))
        ELSE IF expr.name \notin StructFields
            THEN Raise(rb.g, MsgT("does not contain field", basetype, NoTy))
        ELSE IF ~rb.lvalue THEN Fatal(rb.g, "AssertionError")
        ELSE
    With(emit(rb.g, Const(<<fieldOffset(expr.name)>>, "offset", "i32")), LAMBDA g1 :
    With(emit(g1, IntToPtr(Emitted(g1), "offset")), LAMBDA g2 :
    With(emit(g2, AddI(rb.val, Emitted(g2), "mem_addr", "ptr")), LAMBDA g3 :
    Ok(g3, Emitted(g3), fieldType(expr.name), rb.lvalue)))))

\* gen_index_expr that adds the index to the base, not the scaled offset
gen_index_expr_unscaled(g, expr) ==
    Try(gen_expr_code(g, expr.sub[1]), LAMBDA rb :
    Try(make_rvalue_expr(rb.g, expr.sub[2]), LAMBDA ri :
    LET base_typ == the_type(rb.typ)
    IN  IF ~isArray(base_typ) THEN Raise(ri.g, MsgT("Cannot index non-array type", base_typ, NoTy))
        ELSE
    Try(do_coerce(ri.g, ri.val, ri.typ, intType), LAMBDA idx :
    IF ~rb.lvalue THEN Fatal(idx.g, "AssertionError")
    ELSE
    LET element_type == the_type(base_typ.elt[1])
        element_size == size_of(element_type)
    IN
    With(emit(idx.g, Const(<<element_size>>, "element_size", "i32")), LAMBDA g1 :
    With(emit(g1, MulI(idx.val, Emitted(g1), "element_offset", "i32")), LAMBDA g2 :
    With(emit(g2, IntToPtr(idx.val, "elem_offset")), LAMBDA g3 :
    With(emit(g3, AddI(rb.val, Emitted(g3), "element_address", "ptr")), LAMBDA g4 :
    Ok(g4, Emitted(g4), base_typ.elt[1], TRUE))))))))

gen_index_expr(g, expr) ==
    Try(gen_expr_code(g, expr.sub[1]), LAMBDA rb :
    Try(make_rvalue_expr(rb.g, expr.sub[2]), LAMBDA ri :
    LET base_typ == the_type(rb.typ)
    IN  IF ~isArray(base_typ) THEN Raise(ri.g, MsgT("Cannot index non-array type", base_typ, NoTy))
        ELSE
    Try(do_coerce(ri.g, ri.val, ri.typ, intType), LAMBDA idx :
    IF ~rb.lvalue THEN Fatal(idx.g, "AssertionError")
    ELSE
    LET element_type == the_type(base_typ.elt[1])
        element_size == size_of(element_type)
    IN
    With(emit(idx.g, Const(<<element_size>>, "element_size", "i32")), LAMBDA g1 :
    With(emit(g1, MulI(idx.val, Emitted(g1), "element_offset", "i32")), LAMBDA g2 :
    With(emit(g2, IntToPtr(Emitted(g2), "elem_offset")), LAMBDA g3 :
    With(emit(g3, AddI(rb.val, Emitted(g3), "element_address", "ptr")), LAMBDA g4 :
    Ok(g4, Emitted(g4), base_typ.elt[1], TRUE))))))))

\* typemap and context.scope[...] of gen_literal_expr
LiteralType(vt) ==
    CASE vt = "int" -> intType
      [] vt = "float" -> doubleType
      [] vt = "bool" -> boolType
      [] vt = "str" -> stringType
      [] OTHER -> NoTy

\* gen_literal_expr that yields the constant of a string literal
gen_literal_expr_const(g, expr) ==
    IF expr.op \notin {"int", "float", "bool", "str"}
        THEN Raise(g, Msg("Unknown literal type"))
    ELSE IF expr.op = "str"
        THEN IF ~IsAscii(expr.val) THEN Fatal(g, "UnicodeEncodeError")
             ELSE LET cval == pack_string(expr.val)
                      g1 == emit(g, Const(cval, "strval", "i32"))
                      g2 == emit(g1, Addr(Emitted(g1), "addroftxt", "i32"))
                  IN  Ok(g2, Emitted(g1), LiteralType(expr.op), FALSE)
    ELSE IF expr.op = "int"
        THEN LET g1 == emit(g, Const(expr.val, "cnst", "i32"))
             IN  Ok(g1, Emitted(g1), LiteralType(expr.op), FALSE)
    ELSE IF expr.op = "bool"
        THEN LET g1 == emit(g, Const(expr.val, "bool_cnst", "i32"))
             IN  Ok(g1, Emitted(g1), LiteralType(expr.op), FALSE)
    ELSE LET g1 == emit(g, Const(expr.val, "bool_cnst", "f64"))
         IN  Ok(g1, Emitted(g1), LiteralType(expr.op), FALSE)

gen_literal_expr(g, expr) ==
    IF expr.op \notin {"int", "float", "bool", "str"}
        THEN Raise(g, Msg("Unknown literal type"))
    ELSE IF expr.op = "str"
        THEN IF ~IsAscii(expr.val) THEN Fatal(g, "UnicodeEncodeError")
             ELSE LET cval == pack_string(expr.val)
                      g1 == emit(g, Const(cval, "strval", "i32"))
                      g2 == emit(g1, Addr(Emitted(g1), "addroftxt", "i32"))
                  IN  Ok(g2, Emitted(g2), LiteralType(expr.op), FALSE)
    ELSE IF expr.op = "int"
        THEN LET g1 == emit(g, Const(expr.val, "cnst", "i32"))
             IN  Ok(g1, Emitted(g1), LiteralType(expr.op), FALSE)
    ELSE IF expr.op = "bool"
        THEN LET g1 == emit(g, Const(expr.val, "bool_cnst", "i32"))
             IN  Ok(g1, Emitted(g1), LiteralType(expr.op), FALSE)
    ELSE LET g1 == emit(g, Const(expr.val, "bool_cnst", "f64"))
         IN  Ok(g1, Emitted(g1), LiteralType(expr.op), FALSE)

IsBase(t, name) == t.k = name /\ t.elt = <<>>

\* gen_type_cast that lets a cast to the operand's own type pass
gen_type_cast_same_type(g, expr) ==
    Try(make_rvalue_expr(g, expr.sub[1]), LAMBDA ar :
    LET from_type == the_type(ar.typ)
        to_type == the_type(expr.ty)
    IN  IF equal_types(from_type, to_type)
            THEN Ok(ar.g, ar.val, expr.ty, FALSE)
        ELSE IF equal_types(intType, from_type) /\ isPointer(to_type)
            THEN LET g1 == emit(ar.g, IntToPtr(ar.val, "int2ptr"))
                 IN  Ok(g1, Emitted(g1), expr.ty, FALSE)
        ELSE IF equal_types(intType, to_type) /\ isPointer(from_type)
            THEN LET g1 == emit(ar.g, PtrToInt(ar.val, "ptr2int"))
                 IN  Ok(g1, Emitted(g1), expr.ty, FALSE)
        ELSE IF IsBase(from_type, "byte") /\ IsBase(to_type, "int")
            THEN LET g1 == emit(ar.g, ByteToInt(ar.val, "byte2int"))
                 IN  Ok(g1, Emitted(g1), expr.ty, FALSE)
        ELSE IF IsBase(from_type, "int") /\ IsBase(to_type, "byte")
            THEN LET g1 == emit(ar.g, IntToByte(ar.val, "bytecast"))
                 IN  Ok(g1, Emitted(g1), expr.ty, FALSE)
        ELSE Raise(ar.g, MsgT("Cannot cast", from_type, to_type)))

gen_type_cast(g, expr) ==
    Try(make_rvalue_expr(g, expr.sub[1]), LAMBDA ar :
    LET from_type == the_type(ar.typ)
        to_type == the_type(expr.ty)
    IN  IF isPointer(from_type) /\ isPointer(to_type)
            THEN Ok(ar.g, ar.val, expr.ty, FALSE)
        ELSE IF equal_types(intType, from_type) /\ isPointer(to_type)
            THEN LET g1 == emit(ar.g, IntToPtr(ar.val, "int2ptr"))
                 IN  Ok(g1, Emitted(g1), expr.ty, FALSE)
        ELSE IF equal_types(intType, to_type) /\ isPointer(from_type)
            THEN LET g1 == emit(ar.g, PtrToInt(ar.val, "ptr2int"))
                 IN  Ok(g1, Emitted(g1), expr.ty, FALSE)
        ELSE IF IsBase(from_type, "byte") /\ IsBase(to_type, "int")
            THEN LET g1 == emit(ar.g, ByteToInt(ar.val, "byte2int"))
                 IN  Ok(g1, Emitted(g1), expr.ty, FALSE)
        ELSE IF IsBase(from_type, "int") /\ IsBase(to_type, "byte")
            THEN LET g1 == emit(ar.g, IntToByte(ar.val, "bytecast"))
                 IN  Ok(g1, Emitted(g1), expr.ty, FALSE)
        ELSE Raise(ar.g, MsgT("Cannot cast", from_type, to_type)))

gen_sizeof(g, expr) ==
    IF ~type_ok(expr.ty) THEN Raise(g, Msg("Invalid type"))
    ELSE LET g1 == emit(g, Const(<<size_of(expr.ty)>>, "sizeof", "i32"))
         IN  Ok(g1, Emitted(g1), intType, FALSE)

\* the mangled name: package name, "_", function name
Mangled(tg) == tg.package \o "_" \o tg.name

\* first argument whose type differs from its parameter's, 0 if none
FirstMismatch(typs, ptypes) ==
    LET bad == {i \in 1..Len(typs) : ~equal_types(typs[i], ptypes[i])}
    IN  IF bad = {} THEN 0 ELSE CHOOSE i \in bad : \A j \in bad : i <= j

\* gen_function_call that does not compare the numbers of arguments and parameters
gen_function_call_unchecked(g, expr) ==
    With(gen_args(g, expr.sub, <<>>, <<>>), LAMBDA ra :
    IF ra.exc = "SemanticError" THEN Raise(ra.g, ra.err)
    ELSE IF ra.exc # "none" THEN Fatal(ra.g, ra.exc)
    ELSE IF ~InScope(ra.g, expr.name) THEN Raise(ra.g, Msg("Undefined"))
    ELSE
    LET tg == resolve_symbol(ra.g, expr.name)
    IN  IF tg.cat # "Function" THEN Raise(ra.g, MsgNoLoc("cannot call"))
        ELSE LET g1 == emit(ra.g, CallI(Mangled(tg), ra.vals, Mangled(tg) \o "_rv", "i32"))
             IN  Ok(g1, Emitted(g1), tg.ret, FALSE))

\* gen_function_call that takes an argument the way an assignment would
gen_function_call_coerced(g, expr) ==
    With(gen_args(g, expr.sub, <<>>, <<>>), LAMBDA ra :
    IF ra.exc = "SemanticError" THEN Raise(ra.g, ra.err)
    ELSE IF ra.exc # "none" THEN Fatal(ra.g, ra.exc)
    ELSE IF ~InScope(ra.g, expr.name) THEN Raise(ra.g, Msg("Undefined"))
    ELSE
    LET tg == resolve_symbol(ra.g, expr.name)
        bad == {i \in 1..Len(ra.typs) :
                   /\ i <= Len(tg.params)
                   /\ ~equal_types(ra.typs[i], tg.params[i])
                   /\ ~(equal_types(intType, ra.typs[i]) /\ isPointer(tg.params[i]))}
    IN  IF tg.cat # "Function" THEN Raise(ra.g, MsgNoLoc("cannot call"))
        ELSE IF Len(expr.sub) # Len(tg.params)
            THEN Raise(ra.g, Msg(Mangled(tg) \o " requires " \o ToString(Len(tg.params))
                                 \o " arguments, " \o ToString(Len(expr.sub)) \o " given"))
        ELSE IF bad # {}
            THEN LET i == CHOOSE i \in bad : \A j \in bad : i <= j
                 IN  Raise(ra.g, [MsgT("Got, expected", ra.typs[i], tg.params[i]) EXCEPT !.n = i])
        ELSE LET g1 == emit(ra.g, CallI(Mangled(tg), ra.vals, Mangled(tg) \o "_rv", "i32"))
             IN  Ok(g1, Emitted(g1), tg.ret, FALSE))

gen_function_call(g, expr) ==
    With(gen_args(g, expr.sub, <<>>, <<>>), LAMBDA ra :
    IF ra.exc = "SemanticError" THEN Raise(ra.g, ra.err)
    ELSE IF ra.exc # "none" THEN Fatal(ra.g, ra.exc)
    ELSE IF ~InScope(ra.g, expr.name) THEN Raise(ra.g, Msg("Undefined"))
    ELSE
    LET tg == resolve_symbol(ra.g, expr.name)
    IN  IF tg.cat # "Function" THEN Raise(ra.g, MsgNoLoc("cannot call"))
        ELSE IF Len(expr.sub) # Len(tg.params)
            THEN Raise(ra.g, Msg(Mangled(tg) \o " requires " \o ToString(Len(tg.params))
                                 \o " arguments, " \o ToString(Len(expr.sub)) \o " given"))
        ELSE IF FirstMismatch(ra.typs, tg.params) # 0
            THEN LET i == FirstMismatch(ra.typs, tg.params)
                 IN  Raise(ra.g, [MsgT("Got, expected", ra.typs[i], tg.params[i]) EXCEPT !.n = i])
        ELSE LET g1 == emit(ra.g, CallI(Mangled(tg), ra.vals, Mangled(tg) \o "_rv", "i32"))
             IN  Ok(g1, Emitted(g1), tg.ret, FALSE))

gen_expr_code(g, expr) ==
    CASE expr.kind = "Binop" -> gen_binop(g, expr)
      [] expr.kind = "Unop" -> gen_unop(g, expr)
      [] expr.kind = "Identifier" -> gen_identifier(g, expr)
      [] expr.kind = "Deref" -> gen_dereference(g, expr)
      [] expr.kind = "Member" -> gen_member_expr(g, expr)
      [] expr.kind = "Index" -> gen_index_expr(g, expr)
      [] expr.kind = "Literal" -> gen_literal_expr(g, expr)
      [] expr.kind = "TypeCast" -> gen_type_cast(g, expr)
      [] expr.kind = "Sizeof" -> gen_sizeof(g, expr)
      [] expr.kind = "FunctionCall" -> gen_function_call(g, expr)
      [] OTHER -> Fatal(g, "NotImplementedError")

\* make_rvalue_expr that loads a 32-bit value whatever the type
make_rvalue_expr_i32(g, expr) ==
    Try(gen_expr_code(g, expr), LAMBDA r :
    IF r.lvalue
        THEN IF get_ir_type(r.typ) = ""
                 THEN Raise(r.g, MsgT("Cannot determine the load type", the_type(r.typ), NoTy))
             ELSE LET g1 == emit(r.g, Load(r.val, "loaded", "i32"))
                  IN  [r EXCEPT !.g = g1, !.val = Emitted(g1)]
    ELSE r)

make_rvalue_expr(g, expr) ==
    Try(gen_expr_code(g, expr), LAMBDA r :
    IF r.lvalue
        THEN IF get_ir_type(r.typ) = ""
                 THEN Raise(r.g, MsgT("Cannot determine the load type", the_type(r.typ), NoTy))
             ELSE LET g1 == emit(r.g, Load(r.val, "loaded", get_ir_type(r.typ)))
                  IN  [r EXCEPT !.g = g1, !.val = Emitted(g1)]
    ELSE r)

(***************************************************************************)
(* Conditional lowerer.                                                    *)
(***************************************************************************)
RECURSIVE gen_cond_code(_, _, _, _)

\* `or` that lowers its first operand with the targets the other way round
gen_cond_or_swapped(g, expr, bbtrue, bbfalse) ==
    LET g1 == newBlock(g)
        l2 == Fresh(g1)
    IN
    Try(gen_cond_code(g1, expr.sub[1], l2, bbtrue), LAMBDA ra :
    IF ~equal_types(ra.typ, boolType) THEN Raise(ra.g, Msg("Must be boolean"))
    ELSE
    Try(gen_cond_code(setBlock(ra.g, l2), expr.sub[2], bbtrue, bbfalse), LAMBDA rb :
    IF ~equal_types(rb.typ, boolType) THEN Raise(rb.g, Msg("Must be boolean"))
    ELSE Ok(rb.g, NoVal, boolType, FALSE)))

\* the branch of `or`
gen_cond_or(g, expr, bbtrue, bbfalse) ==
    LET g1 == newBlock(g)
        l2 == Fresh(g1)
    IN
    Try(gen_cond_code(g1, expr.sub[1], bbtrue, l2), LAMBDA ra :
    IF ~equal_types(ra.typ, boolType) THEN Raise(ra.g, Msg("Must be boolean"))
    ELSE
    Try(gen_cond_code(setBlock(ra.g, l2), expr.sub[2], bbtrue, bbfalse), LAMBDA rb :
    IF ~equal_types(rb.typ, boolType) THEN Raise(rb.g, Msg("Must be boolean"))
    ELSE Ok(rb.g, NoVal, boolType, FALSE)))

\* the branch of `and`: a first operand that is no boolean is reported, not raised
gen_cond_and(g, expr, bbtrue, bbfalse) ==
    LET g1 == newBlock(g)
        l2 == Fresh(g1)
    IN
    Try(gen_cond_code(g1, expr.sub[1], l2, bbfalse), LAMBDA ra :
    LET g2 == IF ~equal_types(ra.typ, boolType)
                  THEN error(ra.g, Msg("Must be boolean")) ELSE ra.g
    IN
    Try(gen_cond_code(setBlock(g2, l2), expr.sub[2], bbtrue, bbfalse), LAMBDA rb :
    IF ~equal_types(rb.typ, boolType) THEN Raise(rb.g, Msg("Must be boolean"))
    ELSE Ok(rb.g, NoVal, boolType, FALSE)))

\* comparison that does not look at the types
gen_cond_compare_untyped(g, expr, bbtrue, bbfalse) ==
    Try(make_rvalue_expr(g, expr.sub[1]), LAMBDA ta :
    Try(make_rvalue_expr(ta.g, expr.sub[2]), LAMBDA tb :
    Ok(emit(tb.g, CJump(ta.val, expr.op, tb.val, bbtrue, bbfalse)), NoVal, boolType, FALSE)))

\* the branch of the comparison operators
gen_cond_compare(g, expr, bbtrue, bbfalse) ==
    Try(make_rvalue_expr(g, expr.sub[1]), LAMBDA ta :
    Try(make_rvalue_expr(ta.g, expr.sub[2]), LAMBDA tb :
    IF ~equal_types(ta.typ, tb.typ)
        THEN Raise(tb.g, MsgT("Types unequal", ta.typ, tb.typ))
    ELSE Ok(emit(tb.g, CJump(ta.val, expr.op, tb.val, bbtrue, bbfalse)),
            NoVal, boolType, FALSE)))

\* the branch of a literal, with the check that ends gen_cond_code
gen_cond_literal(g, expr, bbtrue, bbfalse) ==
    Try(gen_expr_code(g, expr), LAMBDA r :
    LET g1 == emit(r.g, Jump(IF Truthy(expr) THEN bbtrue ELSE bbfalse))
        g2 == IF ~equal_types(r.typ, boolType)
                  THEN error(g1, Msg("Condition must be boolean")) ELSE g1
    IN  Ok(g2, NoVal, r.typ, FALSE))

gen_cond_code(g, expr, bbtrue, bbfalse) ==
    IF expr.kind = "Binop" THEN
        IF expr.op = "or" THEN gen_cond_or(g, expr, bbtrue, bbfalse)
        ELSE IF expr.op = "and" THEN gen_cond_and(g, expr, bbtrue, bbfalse)
        ELSE IF expr.op \in CompareOps THEN gen_cond_compare(g, expr, bbtrue, bbfalse)
        ELSE Raise(g, Msg("non-bool"))
    ELSE IF expr.kind = "Literal" THEN gen_cond_literal(g, expr, bbtrue, bbfalse)
    ELSE Fatal(g, "NotImplementedError")

(***************************************************************************)
(* Statement lowerer: the statements that do not contain statements.       *)
(***************************************************************************)
Stmt(kind, ex) == [kind |-> kind, ex |-> ex]
Empty == Stmt("Empty", <<>>)
Assignment(lval, rval) == Stmt("Assignment", <<lval, rval>>)
ExpressionStatement(e) == Stmt("ExpressionStatement", <<e>>)
ReturnStmt(e) == Stmt("Return", <<e>>)

\* gen_return_stmt that goes on in the block of the Return
gen_return_stmt_same_block(g, code) ==
    Try(make_rvalue_expr(g, code.ex[1]), LAMBDA r :
    Ok(emit(r.g, Return(r.val)), NoVal, NoTy, FALSE))

gen_return_stmt(g, code) ==
    Try(make_rvalue_expr(g, code.ex[1]), LAMBDA r :
    LET g1 == emit(r.g, Return(r.val))
        g2 == newBlock(g1)
    IN  Ok(setBlock(g2, Fresh(g2)), NoVal, NoTy, FALSE))

\* gen_assignment_stmt that stores whatever the left side is
gen_assignment_stmt_unchecked(g, code) ==
    Try(gen_expr_code(g, code.ex[1]), LAMBDA lval :
    Try(make_rvalue_expr(lval.g, code.ex[2]), LAMBDA rval :
    Try(do_coerce(rval.g, rval.val, rval.typ, lval.typ), LAMBDA co :
    Ok(emit(co.g, Store(co.val, lval.val, TRUE)), NoVal, NoTy, FALSE))))

gen_assignment_stmt(g, code) ==
    Try(gen_expr_code(g, code.ex[1]), LAMBDA lval :
    Try(make_rvalue_expr(lval.g, code.ex[2]), LAMBDA rval :
    Try(do_coerce(rval.g, rval.val, rval.typ, lval.typ), LAMBDA co :
    IF ~lval.lvalue THEN Raise(co.g, Msg("No valid lvalue"))
    ELSE Ok(emit(co.g, Store(co.val, lval.val, TRUE)), NoVal, NoTy, FALSE))))

gen_expression_stmt(g, code) ==
    Try(gen_expr_code(g, code.ex[1]), LAMBDA r :
    IF code.ex[1].kind # "FunctionCall" THEN Raise(r.g, Msg("Not a call expression"))
    ELSE r)

\* gen_stmt without the except clause
stmt_except_none(r) == [g |-> r.g, exc |-> r.exc]

\* an except clause that catches every exception
stmt_except_all(r) ==
    IF r.exc # "none" THEN [g |-> error(r.g, r.err), exc |-> "none"]
    ELSE [g |-> r.g, exc |-> r.exc]

\* the except clause of gen_stmt: a SemanticError is recorded and the
\* statement is left; any other exception goes on
stmt_except(r) ==
    IF r.exc = "SemanticError" THEN [g |-> error(r.g, r.err), exc |-> "none"]
    ELSE [g |-> r.g, exc |-> r.exc]

\* gen_stmt on a statement without sub-statements
gen_stmt_leaf(g, code) ==
    CASE code.kind = "Empty" -> [g |-> g, exc |-> "none"]
      [] code.kind = "Assignment" -> stmt_except(gen_assignment_stmt(g, code))
      [] code.kind = "ExpressionStatement" -> stmt_except(gen_expression_stmt(g, code))
      [] code.kind = "Return" -> stmt_except(gen_return_stmt(g, code))
      [] OTHER -> stmt_except(Fatal(g, "NotImplementedError"))

(***************************************************************************)
(* Driver and function lowerer: the parts before and after the bodies.     *)
(***************************************************************************)
\* default of the volatile argument of ir.Store
StoreDefaultVolatile == FALSE

\* symbols of the module scope: a global variable, a constant, functions, a type name
ModuleScope ==
    [n \in {"g", "c", "f0", "f1", "f2", "fp", "fa", "T"} |->
        CASE n = "g" -> Variable("g", intType)
          [] n = "c" -> Constant("c", intType, 7)
          [] n = "f0" -> Function("f0", "m", <<>>, intType)
          [] n = "f1" -> Function("f1", "m", <<intType>>, intType)
          [] n = "f2" -> Function("f2", "m", <<intType, byteType>>, byteType)
          [] n = "fp" -> Function("fp", "m", <<PointerType(intType)>>, intType)
          [] n = "fa" -> Function("fa", "m", <<>>, ArrayType(intType))
          [] n = "T" -> Symbol("T", "Type", intType)]

Range(s) == {s[i] : i \in 1..Len(s)}

\* the loop of gencode without the entry in the symbol map
RECURSIVE add_globals_unbound(_, _)
add_globals_unbound(g, variables) ==
    IF variables = <<>> THEN g
    ELSE LET var == Head(variables)
         IN  add_globals_unbound(add_variable(g, var.name, size_of(var.typ)), Tail(variables))

\* the loop over mod.innerScope.variables of gencode
RECURSIVE add_globals(_, _)
add_globals(g, variables) ==
    IF variables = <<>> THEN g
    ELSE LET var == Head(variables)
             g1 == add_variable(g, var.name, size_of(var.typ))
             ir_var == Val("glob", 0, Len(g1.m.variables))
         IN  add_globals([g1 EXCEPT !.varMap = (SymKey(var) :> ir_var) @@ @], Tail(variables))

\* gencode that goes on with the module and the blocks of the call before
gencode_begin_same_module(g, m, n) ==
    LET g1 == [g EXCEPT !.ok = TRUE, !.varMap = <<>>, !.call = n, !.scope = ModuleScope,
                        !.function = 0, !.block = 0, !.m.name = m.name]
    IN  IF \E t \in Range(m.types) : ~type_ok(t) THEN Raise(g1, Msg("Invalid type"))
        ELSE Ok(add_globals(g1, m.globals), NoVal, NoTy, FALSE)

\* gencode up to the loop over the functions; n is the number of this call
gencode_begin(g, m, n) ==
    LET g1 == [prepare(g) EXCEPT !.ok = TRUE, !.varMap = <<>>, !.call = n, !.scope = ModuleScope,
                                 !.m = [NoModule EXCEPT !.name = m.name]]
    IN  IF \E t \in Range(m.types) : ~type_ok(t) THEN Raise(g1, Msg("Invalid type"))
        ELSE Ok(add_globals(g1, m.globals), NoVal, NoTy, FALSE)

\* the loop of gen_function with parameters of the ir-type of their type
RECURSIVE gen_locals_typed(_, _, _)
gen_locals_typed(g, syms, f) ==
    IF syms = <<>> THEN Ok(g, NoVal, NoTy, FALSE)
    ELSE LET sym == [Head(syms) EXCEPT !.fn = f]
         IN  IF ~type_ok(sym.typ) THEN Raise(g, Msg("Invalid type"))
             ELSE
         LET g1 == emit(g, Alloc("var_" \o sym.name, size_of(sym.typ)))
             variable == Emitted(g1)
             g2 == IF sym.isParameter
                       THEN LET g3 == add_parameter(g1, sym.name, get_ir_type(sym.typ))
                                parameter == Val("param", f, Len(g3.m.functions[f].params))
                            IN  emit(g3, Store(parameter, variable, StoreDefaultVolatile))
                   ELSE g1
         IN  IF ~sym.isParameter /\ sym.cat # "Variable" THEN Fatal(g1, "NotImplementedError")
             ELSE gen_locals_typed([g2 EXCEPT !.varMap = (SymKey(sym) :> variable) @@ @,
                                              !.scope = (sym.name :> sym) @@ @],
                                   Tail(syms), f)

\* the loop over function.innerScope of gen_function; f is the function
RECURSIVE gen_locals(_, _, _)
gen_locals(g, syms, f) ==
    IF syms = <<>> THEN Ok(g, NoVal, NoTy, FALSE)
    ELSE LET sym == [Head(syms) EXCEPT !.fn = f]
         IN  IF ~type_ok(sym.typ) THEN Raise(g, Msg("Invalid type"))
             ELSE
         LET g1 == emit(g, Alloc("var_" \o sym.name, size_of(sym.typ)))
             variable == Emitted(g1)
             g2 == IF sym.isParameter
                       THEN LET g3 == add_parameter(g1, sym.name, "i32")
                                parameter == Val("param", f, Len(g3.m.functions[f].params))
                            IN  emit(g3, Store(parameter, variable, StoreDefaultVolatile))
                   ELSE g1
         IN  IF ~sym.isParameter /\ sym.cat # "Variable" THEN Fatal(g1, "NotImplementedError")
             ELSE gen_locals([g2 EXCEPT !.varMap = (SymKey(sym) :> variable) @@ @,
                                        !.scope = (sym.name :> sym) @@ @],
                             Tail(syms), f)

\* gen_function up to the lowering of the body
gen_function_begin(g, function) ==
    LET g1 == new_function(g, function.name)
        f == Len(g1.m.functions)
        g2 == newBlock(setFunction(g1, f))
        first_block == Fresh(g2)
        g3 == setBlock(emit(g2, Jump(first_block)), first_block)
    IN  gen_locals([g3 EXCEPT !.scope = ModuleScope], function.innerScope, f)

\* gen_function that leaves the last block of the body open
gen_function_end_open(g) ==
    setFunction(setBlock(g, g.m.functions[g.function].epiloog), 0)

\* gen_function after the lowering of the body
gen_function_end(g) ==
    LET epiloog == g.m.functions[g.function].epiloog
    IN  setFunction(setBlock(emit(g, Jump(epiloog)), epiloog), 0)

(***************************************************************************)
(* Inputs: the modules, scopes, statements and expressions the bodies are  *)
(* made of.                                                                *)
(***************************************************************************)
\* the numbers 1..n in order
RECURSIVE Upto(_)
Upto(n) == IF n = 0 THEN <<>> ELSE Append(Upto(n - 1), n)

\* ast.Module: its type declarations, its variables, and for every function
\* whether it carries a body
Modules ==
    {[name |-> "m", types |-> ts, globals |-> <<Variable("g", intType)>>, functions |-> fs] :
        ts \in {<<>>, <<badType>>},
        fs \in UNION {[1..n -> BOOLEAN] : n \in 0..MaxNodes}}

\* inner scopes of a function: a parameter and a local, a local of an
\* ill-formed type, a symbol that is neither parameter nor variable
Scopes ==
    {<<Parameter("x", intType), Variable("b", byteType)>>,
     <<Variable("x", intType), Variable("bad", badType)>>,
     <<Constant("k", intType, 1)>>}

X == Identifier("x")
XLess1 == BinopE(X, "<", IntLit(1))
XEq0 == BinopE(X, "==", IntLit(0))

\* statements without sub-statements: an assignment that lowers and one that
\* contains two errors, a return, a call, a statement of no known kind (the
\* empty statement is the compound of no statement)
LeafStmts ==
    {Assignment(X, IntLit(0)), Assignment(IntLit(1), Identifier("u")),
     ReturnStmt(IntLit(0)), ExpressionStatement(FunctionCall("f0", <<>>)), Stmt("Other", <<>>)}

\* conditions of if, while and for: a comparison, one of unequal types, a
\* literal, a sequential operator over two comparisons, one with a literal
\* operand that is no boolean, and a node of a kind that gen_cond_code does
\* not know
Conds ==
    {XLess1, BinopE(X, "<", Identifier("b")), BoolLit(TRUE), BinopE(XLess1, "and", XEq0),
     BinopE(IntLit(1), "or", XLess1), X}

(***************************************************************************)
(* The state machine.                                                      *)
(***************************************************************************)
Frame(k, a, b, c) == [k |-> k, a |-> a, b |-> b, c |-> c]
\* gen_stmt is in the loop over the statements of a compound
StmtFrame == Frame("stmts", 0, 0, 0)

NoCur == [code |-> Empty, b0 |-> 0, n0 |-> 0, d0 |-> 0, exc |-> "none"]
\* gen_stmt is entered with statement `code`
Dispatch(code) ==
    [code |-> code, b0 |-> gen.block, n0 |-> Len(gen.blocks[gen.block].ins),
     d0 |-> Len(gen.diag), exc |-> "none"]

NoGen ==
    [ok |-> TRUE, diag |-> <<>>, varMap |-> <<>>, scope |-> ModuleScope, call |-> 0,
     m |-> NoModule, function |-> 0, block |-> 0, blocks |-> <<>>]

\* Project.__init__: no targets yet; TaskRunner before run is called
NoProject == [name |-> "", targets |-> <<>>]
NoRun ==
    [pc |-> "idle", target |-> 0, state |-> {}, dfs |-> <<>>, error |-> "",
     target_list |-> {}, result |-> -1]

NoProbe == [fn |-> "none", code |-> Empty, expr |-> Expr("none"), cty |-> NoTy, scope |-> <<>>]
NoOut ==
    [done |-> FALSE, val |-> NoVal, typ |-> NoTy, lvalue |-> FALSE, exc |-> "none", err |-> Msg(""),
     bytes |-> <<>>, irty |-> ""]

Init ==
    /\ pc = "idle"
    /\ mod = [name |-> "", types |-> <<>>, globals |-> <<>>, functions |-> <<>>]
    /\ todo = <<>>
    /\ stack = <<>>
    /\ fuel = MaxNodes
    /\ gen = NoGen
    /\ cur = NoCur
    /\ result = "none"
    /\ pin = NoProbe
    /\ pout = NoOut
    /\ project = NoProject
    /\ runner = NoRun

\* an exception that no handler of the generator catches leaves gencode
Propagate(g, exc) ==
    /\ gen' = g
    /\ result' = exc
    /\ pc' = "done"
    /\ stack' = <<>>

\* gencode, up to the first function
GenCode ==
    /\ pc \in {"idle", "done"}
    /\ gen.call < MaxCalls
    /\ \E m \in Modules :
        /\ Len(m.functions) <= fuel
        /\ fuel' = fuel - Len(m.functions)
        /\ LET r == gencode_begin(gen, m, gen.call + 1)
            real_functions == SelectSeq(Upto(Len(m.functions)), LAMBDA i : m.functions[i])
           IN  /\ mod' = m
               /\ result' = "none"
               /\ stack' = <<>>
               /\ cur' = NoCur
               /\ todo' = real_functions
               /\ IF r.exc = "SemanticError"
                      THEN gen' = error(r.g, r.err) /\ pc' = "finish"
                  ELSE /\ gen' = r.g
                       /\ pc' = IF real_functions = <<>> THEN "finish" ELSE "functions"
    /\ UNCHANGED <<pin, pout, project, runner>>

\* gen_function, up to the body
GenFunction ==
    /\ pc = "functions"
    /\ todo # <<>>
    /\ \E sc \in Scopes :
        LET r == gen_function_begin(gen, [name |-> "fn", innerScope |-> sc])
        IN  IF r.exc = "SemanticError"
                THEN gen' = error(r.g, r.err) /\ pc' = "finish" /\ UNCHANGED <<stack, result, todo>>
            ELSE IF r.exc # "none" THEN Propagate(r.g, r.exc) /\ UNCHANGED todo
            ELSE /\ gen' = r.g
                 /\ pc' = "body"
                 /\ stack' = <<StmtFrame, Frame("func_end", 0, 0, 0)>>
                 /\ todo' = Tail(todo)
                 /\ UNCHANGED result
    /\ UNCHANGED <<mod, fuel, cur, pin, pout, project, runner>>

\* gen_function, after the body
GenFunctionEnd ==
    /\ pc = "body"
    /\ stack # <<>> /\ Head(stack).k = "func_end"
    /\ gen' = gen_function_end(gen)
    /\ stack' = Tail(stack)
    /\ pc' = IF todo = <<>> THEN "finish" ELSE "functions"
    /\ UNCHANGED <<mod, todo, fuel, cur, result, pin, pout, project, runner>>

\* gencode, after the try statement
GenCodeEnd ==
    /\ pc = "finish"
    /\ result' = IF gen.ok THEN "module" ELSE "SemanticError"
    /\ pc' = "done"
    /\ UNCHANGED <<mod, todo, stack, fuel, gen, cur, pin, pout, project, runner>>

AtStmt == pc = "body" /\ stack # <<>> /\ Head(stack).k = "stmts"
AtFrame(k) == pc = "body" /\ stack # <<>> /\ Head(stack).k = k

\* gen_stmt on a statement without sub-statements
GenStmtLeaf ==
    /\ AtStmt /\ fuel > 0
    /\ \E code \in LeafStmts :
        \E r \in {gen_stmt_leaf(gen, code)} :
            /\ cur' = [Dispatch(code) EXCEPT !.exc =
                          IF Len(r.g.diag) > Len(gen.diag) THEN "SemanticError" ELSE r.exc]
            /\ IF r.exc # "none" THEN Propagate(r.g, r.exc)
               ELSE gen' = r.g /\ UNCHANGED <<pc, stack, result>>
    /\ fuel' = fuel - 1
    /\ UNCHANGED <<mod, todo, pin, pout, project, runner>>

\* gen_stmt on a compound, after its last statement
GenCompoundEnd ==
    /\ AtStmt
    /\ stack' = Tail(stack)
    /\ UNCHANGED <<pc, mod, todo, fuel, gen, cur, result, pin, pout, project, runner>>

\* the outcome of a handler that lowered a condition: r is the result of
\* gen_cond_code, g the generator if it returned, frames what is left to do,
\* rest the frames of the statements around
AfterCond(r, g, frames, rest) ==
    IF r.exc = "SemanticError"
        THEN gen' = error(r.g, r.err) /\ stack' = rest /\ UNCHANGED <<pc, result>>
    ELSE IF r.exc # "none" THEN Propagate(r.g, r.exc)
    ELSE gen' = g /\ stack' = frames \o rest /\ UNCHANGED <<pc, result>>

\* gen_if_stmt, up to the true statement
GenIf ==
    /\ AtStmt /\ fuel > 0
    /\ \E cond \in Conds :
        LET g1 == newBlock(gen)
            true_block == Fresh(g1)
            g2 == newBlock(g1)
            bbfalse == Fresh(g2)
            g3 == newBlock(g2)
            final_block == Fresh(g3)
        IN  \E r \in {gen_cond_code(g3, cond, true_block, bbfalse)} :
            /\ cur' = [Dispatch(Stmt("If", <<cond>>)) EXCEPT !.exc = r.exc]
            /\ AfterCond(r, setBlock(r.g, true_block),
                         <<StmtFrame, Frame("if_true_done", final_block, bbfalse, 0)>>, stack)
    /\ fuel' = fuel - 1
    /\ UNCHANGED <<mod, todo, pin, pout, project, runner>>

\* gen_if_stmt that leaves the true statement open
GenIfElse_open ==
    /\ AtFrame("if_true_done")
    /\ LET fr == Head(stack)
       IN  /\ gen' = setBlock(gen, fr.b)
           /\ stack' = <<StmtFrame, Frame("if_false_done", fr.a, 0, 0)>> \o Tail(stack)
    /\ UNCHANGED <<pc, mod, todo, fuel, cur, result, pin, pout, project, runner>>

\* gen_if_stmt, between the true and the false statement
GenIfElse ==
    /\ AtFrame("if_true_done")
    /\ LET fr == Head(stack)
       IN  /\ gen' = setBlock(emit(gen, Jump(fr.a)), fr.b)
           /\ stack' = <<StmtFrame, Frame("if_false_done", fr.a, 0, 0)>> \o Tail(stack)
    /\ UNCHANGED <<pc, mod, todo, fuel, cur, result, pin, pout, project, runner>>

\* gen_if_stmt, after the false statement
GenIfEnd ==
    /\ AtFrame("if_false_done")
    /\ gen' = setBlock(emit(gen, Jump(Head(stack).a)), Head(stack).a)
    /\ stack' = Tail(stack)
    /\ UNCHANGED <<pc, mod, todo, fuel, cur, result, pin, pout, project, runner>>

\* gen_while that lowers the condition in the block that is current
GenWhile_no_entry ==
    /\ AtStmt /\ fuel > 0
    /\ \E cond \in Conds :
        LET g1 == newBlock(gen)
            bbdo == Fresh(g1)
            g2 == newBlock(g1)
            test_block == Fresh(g2)
            g3 == newBlock(g2)
            final_block == Fresh(g3)
        IN  \E r \in {gen_cond_code(g3, cond, bbdo, final_block)} :
            /\ cur' = [Dispatch(Stmt("While", <<cond>>)) EXCEPT !.exc = r.exc]
            /\ AfterCond(r, setBlock(r.g, bbdo),
                         <<StmtFrame, Frame("while_done", test_block, final_block, 0)>>, stack)
    /\ fuel' = fuel - 1
    /\ UNCHANGED <<mod, todo, pin, pout, project, runner>>

\* gen_while, up to the body
GenWhile ==
    /\ AtStmt /\ fuel > 0
    /\ \E cond \in Conds :
        LET g1 == newBlock(gen)
            bbdo == Fresh(g1)
            g2 == newBlock(g1)
            test_block == Fresh(g2)
            g3 == newBlock(g2)
            final_block == Fresh(g3)
            g4 == setBlock(emit(g3, Jump(test_block)), test_block)
        IN  \E r \in {gen_cond_code(g4, cond, bbdo, final_block)} :
            /\ cur' = [Dispatch(Stmt("While", <<cond>>)) EXCEPT !.exc = r.exc]
            /\ AfterCond(r, setBlock(r.g, bbdo),
                         <<StmtFrame, Frame("while_done", test_block, final_block, 0)>>, stack)
    /\ fuel' = fuel - 1
    /\ UNCHANGED <<mod, todo, pin, pout, project, runner>>

\* gen_while that does not close the body
GenWhileEnd_open ==
    /\ AtFrame("while_done")
    /\ gen' = setBlock(gen, Head(stack).b)
    /\ stack' = Tail(stack)
    /\ UNCHANGED <<pc, mod, todo, fuel, cur, result, pin, pout, project, runner>>

\* gen_while, after the body
GenWhileEnd ==
    /\ AtFrame("while_done")
    /\ gen' = setBlock(emit(gen, Jump(Head(stack).a)), Head(stack).b)
    /\ stack' = Tail(stack)
    /\ UNCHANGED <<pc, mod, todo, fuel, cur, result, pin, pout, project, runner>>

\* gen_for_stmt, up to the init statement
GenFor ==
    /\ AtStmt /\ fuel > 0
    /\ LET g1 == newBlock(gen)
           bbdo == Fresh(g1)
           g2 == newBlock(g1)
           test_block == Fresh(g2)
           g3 == newBlock(g2)
           final_block == Fresh(g3)
       IN  /\ gen' = g3
           /\ stack' = <<StmtFrame, Frame("for_init_done", test_block, bbdo, final_block)>> \o stack
    /\ cur' = Dispatch(Stmt("For", <<>>))
    /\ fuel' = fuel - 1
    /\ UNCHANGED <<pc, mod, todo, result, pin, pout, project, runner>>

\* gen_for_stmt, between the init statement and the body
GenForTest ==
    /\ AtFrame("for_init_done")
    /\ \E cond \in Conds :
        LET fr == Head(stack)
            g1 == setBlock(emit(gen, Jump(fr.a)), fr.a)
        IN  \E r \in {gen_cond_code(g1, cond, fr.b, fr.c)} :
            /\ cur' = [Dispatch(Stmt("For", <<cond>>)) EXCEPT !.exc = r.exc]
            /\ AfterCond(r, setBlock(r.g, fr.b),
                         <<StmtFrame, Frame("for_body_done", fr.a, fr.c, 0)>>, Tail(stack))
    /\ UNCHANGED <<mod, todo, fuel, pin, pout, project, runner>>

\* gen_for_stmt, between the body and the final statement
GenForFinal ==
    /\ AtFrame("for_body_done")
    /\ stack' = <<StmtFrame, Frame("for_done", Head(stack).a, Head(stack).b, 0)>> \o Tail(stack)
    /\ UNCHANGED <<pc, mod, todo, fuel, gen, cur, result, pin, pout, project, runner>>

\* gen_for_stmt that does not close the loop
GenForEnd_open ==
    /\ AtFrame("for_done")
    /\ gen' = setBlock(gen, Head(stack).b)
    /\ stack' = Tail(stack)
    /\ UNCHANGED <<pc, mod, todo, fuel, cur, result, pin, pout, project, runner>>

\* gen_for_stmt, after the final statement
GenForEnd ==
    /\ AtFrame("for_done")
    /\ gen' = setBlock(emit(gen, Jump(Head(stack).a)), Head(stack).b)
    /\ stack' = Tail(stack)
    /\ UNCHANGED <<pc, mod, todo, fuel, cur, result, pin, pout, project, runner>>

Next ==
    \/ GenCode
    \/ GenFunction
    \/ GenFunctionEnd
    \/ GenCodeEnd
    \/ GenStmtLeaf
    \/ GenCompoundEnd
    \/ GenIf
    \/ GenIfElse
    \/ GenIfEnd
    \/ GenWhile
    \/ GenWhileEnd
    \/ GenFor
    \/ GenForTest
    \/ GenForFinal
    \/ GenForEnd

Spec == Init /\ [][Next]_vars

(***************************************************************************)
(* Queries on the emitted IR and on the diagnostics.                       *)
(***************************************************************************)
IsTerminator(ins) == ins.op \in Terminators
LastIns(g, b) == g.blocks[b].ins[Len(g.blocks[b].ins)]
EndsWith(g, b, op) == g.blocks[b].ins # <<>> /\ LastIns(g, b).op = op

\* the functions gen_function has been left for normally, and their blocks
LoweredFunctions(g) == {f \in 1..Len(g.m.functions) : f # g.function}
BlocksOf(g, f) == {b \in 1..Len(g.blocks) : g.blocks[b].fn = f}
\* the blocks the generator fills: all but the epilogue, which ir.Function provides
BodyBlocks(g, f) == BlocksOf(g, f) \ {g.m.functions[f].epiloog}

\* the targets of the instruction that ends block b (its first terminator)
Targets(ins) ==
    IF ins.op = "Jump" THEN {ins.t1} ELSE IF ins.op = "CJump" THEN {ins.t1, ins.t2} ELSE {}
Succ(g, b) ==
    LET ins == g.blocks[b].ins
        ts == {i \in 1..Len(ins) : IsTerminator(ins[i])}
    IN  IF ts = {} THEN {} ELSE Targets(ins[CHOOSE i \in ts : \A j \in ts : i <= j])
\* the blocks with an edge to b
Pred(g, b) == {a \in 1..Len(g.blocks) : \E i \in 1..Len(g.blocks[a].ins) : b \in Targets(g.blocks[a].ins[i])}

RECURSIVE ReachFrom(_, _)
ReachFrom(g, bs) ==
    LET more == bs \cup UNION {Succ(g, b) : b \in bs}
    IN  IF more = bs THEN bs ELSE ReachFrom(g, more)

\* the diagnostics of the gencode call in progress (the sink outlives the call)
Reported(g) == {i \in 1..Len(g.diag) : g.diag[i].call = g.call}

\* gen_stmt has just been given a statement, and has left it or handed on an exception
LoweredStmt == cur' # cur

(***************************************************************************)
(* C1.  gencode returns the module exactly when no error was reported      *)
(* during the call, and raises SemanticError exactly when one was: it      *)
(* never returns a module after an error, and the errors are in the sink   *)
(* when it raises.  (A call that another exception leaves ends in neither  *)
(* way.)                                                                   *)
(***************************************************************************)
Thm_C1 ==
    pc = "done" =>
        /\ result \in {"module", "SemanticError"} \cup FatalKinds
        /\ result = "module" => Reported(gen) = {}
        /\ result = "SemanticError" => Reported(gen) # {}
        /\ result \notin FatalKinds => (result = "module" <=> Reported(gen) = {})

\* a second call on the generator fails after an error in a statement, with
\* the diagnostics of the first call still in the sink
Wit_C1 ==
    /\ pc = "done" /\ result = "SemanticError" /\ gen.call = 2
    /\ gen.blocks # <<>>
    /\ \E i \in 1..Len(gen.diag) : gen.diag[i].call = 1

(***************************************************************************)
(* C2.  The semantic errors of an assignment: of its target (it does not   *)
(* lower, or is no l-value), of its value, and of their types.             *)
(***************************************************************************)
DistinctErrors(g, code) ==
    LET lval == gen_expr_code(g, code.ex[1])
        rval == make_rvalue_expr(g, code.ex[2])
        one(bad) == IF bad THEN 1 ELSE 0
    IN  one(lval.exc = "SemanticError" \/ (lval.exc = "none" /\ ~lval.lvalue))
        + one(rval.exc = "SemanticError")
        + one(lval.exc = "none" /\ rval.exc = "none"
              /\ do_coerce(rval.g, rval.val, rval.typ, lval.typ).exc = "SemanticError")

\* a statement in which a SemanticError was raised: the error is recorded,
\* gencode has not failed, and gen_stmt is back in the compound around it
CaughtAtBoundary ==
    (LoweredStmt /\ cur'.exc = "SemanticError") =>
        /\ Len(gen'.diag) > Len(gen.diag)
        /\ ~gen'.ok
        /\ result' = result /\ todo' = todo
        /\ pc' = "body" /\ stack' # <<>> /\ Head(stack').k = "stmts"
        /\ stack' \in {stack, Tail(stack)}

WellFormedBlock(g, b) ==
    LET ins == g.blocks[b].ins
    IN  /\ ins # <<>>
        /\ IsTerminator(ins[Len(ins)])
        /\ \A i \in 1..(Len(ins) - 1) : ~IsTerminator(ins[i])

\* the diagnostics recorded while function f was lowered
ErrorsIn(g, f) == {i \in Reported(g) : g.diag[i].fn = f}

SoleReturnSite(g, f) ==
    \A b \in BodyBlocks(g, f) : \A i \in 1..Len(g.blocks[b].ins) : g.blocks[b].ins[i].op # "Return"
\* no path from the entry ends elsewhere or goes on for ever without the epilogue
OnEveryPath(g, f) ==
    \A b \in ReachFrom(g, {g.m.functions[f].entry}) :
        g.m.functions[f].epiloog \in ReachFrom(g, {b})

AfterReturn ==
    /\ pc = "body" /\ cur.code.kind = "Return" /\ cur.exc = "none"
    /\ gen.block = Len(gen.blocks) /\ gen.blocks[gen.block].ins = <<>>

Thm_C10 ==
    [][/\ (LoweredStmt /\ cur'.code.kind = "Return" /\ cur'.exc = "none") =>
              /\ EndsWith(gen', cur'.b0, "Return")
              /\ Len(gen'.blocks) = Len(gen.blocks) + 1
              /\ gen'.block = Len(gen'.blocks)
              /\ gen'.blocks[gen'.block].ins = <<>>
              /\ Pred(gen', gen'.block) = {}
       /\ (AfterReturn /\ LoweredStmt /\ cur'.code.kind \in {"Assignment", "ExpressionStatement"}) =>
              /\ cur'.b0 = gen.block
              /\ \A b \in 1..Len(gen.blocks) : b # gen.block => gen'.blocks[b] = gen.blocks[b]
              /\ Pred(gen', gen.block) = {}
              /\ cur'.code = Assignment(X, IntLit(0)) =>
                     /\ cur'.exc = "none" /\ gen'.diag = gen.diag
                     /\ Len(gen'.blocks[gen.block].ins) = 2
                     /\ EndsWith(gen', gen.block, "Store")]_vars

\* `return 0; x := 0;`: the assignment has been lowered into the new block
Wit_C10 ==
    /\ pc = "body" /\ cur.code = Assignment(X, IntLit(0)) /\ cur.exc = "none"
    /\ cur.n0 = 0 /\ cur.b0 = gen.block /\ cur.b0 > 1
    /\ EndsWith(gen, cur.b0 - 1, "Return")
    /\ Pred(gen, cur.b0) = {}
    /\ EndsWith(gen, cur.b0, "Store")

(***************************************************************************)
(* The lowering functions applied to one node each, inside a function body *)
(* whose scope holds a symbol of every kind of type.  pin is the node and  *)
(* the function it is given to; pout is what the function returns.         *)
(***************************************************************************)
FullScope ==
    <<Parameter("x", intType), Variable("b", byteType), Variable("p", PointerType(intType)),
      Variable("q", PointerType(byteType)), Variable("arr", ArrayType(intType)),
      Variable("mat", ArrayType(ArrayType(byteType))), Variable("s", structType),
      Variable("d", doubleType), Variable("flag", boolType), Variable("txt", stringType),
      Variable("al", NamedType(intType)), Variable("pal", NamedType(PointerType(intType)))>>

\* the generator when the body of such a function is reached
ProbeGen ==
    gen_function_begin(
        gencode_begin(NoGen, [name |-> "m", types |-> <<>>,
                              globals |-> <<Variable("g", intType)>>, functions |-> <<TRUE>>], 1).g,
        [name |-> "fn", innerScope |-> FullScope]).g

\* texts: code points of "f", "o", of the last ASCII character and of one beyond
Chars == {102, 111, 127, 233}
\* the text "foo", and texts whose length takes a second byte
Foo == <<102, 111, 111>>
Texts ==
    UNION {[1..n -> Chars] : n \in 0..MaxStrLen}
    \cup {Foo} \cup {[i \in 1..n |-> 102] : n \in {255, 256, 258}}

Names == {"x", "b", "p", "q", "arr", "mat", "s", "d", "flag", "txt", "al", "pal", "g", "c", "u", "T", "f0"}
Leaves ==
    {Identifier(n) : n \in Names}
    \cup {IntLit(0), IntLit(1), BoolLit(TRUE), BoolLit(FALSE), FloatLit(2), Literal("NoneType", <<>>)}
Operands == {Identifier(n) : n \in {"x", "b", "p", "arr", "s", "u"}} \cup {IntLit(1), BoolLit(TRUE)}
CastTypes ==
    {intType, byteType, boolType, doubleType, PointerType(intType), PointerType(byteType),
     NamedType(intType), NamedType(PointerType(intType)), structType}
ArgLists ==
    UNION {[1..n -> {IntLit(1), Identifier("b"), Identifier("u"), Identifier("p")}] : n \in 0..MaxArgs}
Calls == {FunctionCall(f, args) : f \in {"f0", "f1", "f2", "fp", "fa", "x", "u"}, args \in ArgLists}

\* expressions of one operator over the leaves
Level1 ==
    {BinopE(a, op, b) : a \in Operands, b \in Operands, op \in {"+", "<", "or"}}
    \cup {Unop(op, a) : op \in {"&", "-"}, a \in Leaves}
    \cup {Deref(a) : a \in Leaves}
    \cup {Member(a, f) : a \in Leaves, f \in {"f", "g", "h"}}
    \cup {Index(a, i) : a \in Leaves \cup {FunctionCall("fa", <<>>)}, i \in Operands}
    \cup {TypeCast(t, a) : t \in CastTypes, a \in Leaves}
    \cup {Sizeof(t) : t \in CastTypes \cup {badType}}
    \cup Calls
    \cup {Expr("Other")}

\* expressions of two operators: an operator over the ones that yield storage,
\* a pointer or a number
Inner ==
    {Unop("&", Identifier("x")), Deref(Identifier("p")), Index(Identifier("arr"), IntLit(1)),
     Index(Identifier("mat"), IntLit(0)), Member(Identifier("s"), "f"),
     TypeCast(PointerType(byteType), Identifier("p")), TypeCast(byteType, Identifier("x")),
     BinopE(Identifier("x"), "+", IntLit(1)), FunctionCall("f1", <<IntLit(1)>>)}
Level2 ==
    {BinopE(a, "+", b) : a \in Inner, b \in {IntLit(1)}}
    \cup {Unop("&", a) : a \in Inner}
    \cup {Deref(a) : a \in Inner}
    \cup {Member(a, "g") : a \in Inner}
    \cup {Index(a, i) : a \in Inner, i \in {IntLit(1), Identifier("x")}}
    \cup {Index(Identifier("arr"), i) : i \in Inner}
    \cup {TypeCast(t, a) : t \in CastTypes, a \in Inner}
    \cup {FunctionCall("f1", <<a>>) : a \in Inner}

Exprs == Leaves \cup {StrLit(t) : t \in Texts} \cup Level1 \cup Level2

LeftSides ==
    {Identifier(n) : n \in {"x", "b", "p", "arr", "s", "u", "c"}}
    \cup {IntLit(1), Deref(Identifier("p")), Index(Identifier("arr"), IntLit(1)),
          Member(Identifier("s"), "g"), FunctionCall("f0", <<>>), Unop("&", Identifier("x"))}
RightSides ==
    {Identifier(n) : n \in {"x", "b", "p", "q", "arr", "s", "u", "c", "al"}}
    \cup {IntLit(1), BoolLit(TRUE), StrLit(<<102>>), Unop("&", Identifier("x")),
          TypeCast(intType, Identifier("b")), FunctionCall("f0", <<>>),
          TypeCast(boolType, Identifier("x")), Index(FunctionCall("fa", <<>>), IntLit(1)),
          Unop("&", IntLit(1))}

ProbeStmts ==
    {Assignment(l, r) : l \in LeftSides, r \in RightSides}
    \cup {ExpressionStatement(e) : e \in Calls \cup Leaves}
    \cup {ReturnStmt(e) : e \in Leaves \cup Inner}
    \cup {Empty, Stmt("Other", <<>>)}

CondLeaves ==
    {BinopE(a, op, b) : a \in {X, Identifier("b"), IntLit(1)},
                        b \in {X, Identifier("b"), IntLit(1), Identifier("al")},
                        op \in CompareOps}
    \cup {BoolLit(TRUE), BoolLit(FALSE), IntLit(0), IntLit(1), StrLit(<<>>), X,
          BinopE(X, "+", IntLit(1)), Literal("NoneType", <<>>)}
CondSubs ==
    {XLess1, XEq0, BinopE(X, "!=", Identifier("b")), BoolLit(TRUE), BoolLit(FALSE), IntLit(1), X,
     BinopE(XLess1, "or", XEq0), BinopE(XEq0, "and", XLess1),
     BinopE(XLess1, "or", BoolLit(FALSE)), BinopE(BoolLit(TRUE), "and", XLess1)}
ProbeConds ==
    CondLeaves \cup {BinopE(a, op, b) : a \in CondSubs, b \in CondSubs, op \in {"or", "and"}}

\* source types: the base types, pointers, aliases of them (an alias of an
\* alias too), and the types without an ir-type
SourceTypes ==
    CastTypes
    \cup {stringType, funcType, ArrayType(intType), ArrayType(byteType),
          PointerType(structType), PointerType(PointerType(intType)),
          NamedType(NamedType(byteType)), NamedType(doubleType), NamedType(boolType),
          NamedType(structType), NamedType(ArrayType(intType)), NamedType(stringType)}

\* symbols of an inner scope: parameters and locals of several sizes, a local
\* of an ill-formed type and a symbol that is neither parameter nor variable
ScopeSymbols ==
    {Parameter("x", intType), Parameter("y", byteType), Parameter("z", PointerType(intType)),
     Variable("b", byteType), Variable("arr", ArrayType(intType)), Variable("s", structType),
     Variable("bad", badType), Constant("k", intType, 1)}
\* inner scopes: up to MaxSyms of these symbols in any order, none twice
ProbeScopes ==
    UNION {{sc \in [1..n -> ScopeSymbols] : \A i, j \in 1..n : sc[i] = sc[j] => i = j} :
               n \in 0..MaxSyms}

ProbeInputs ==
    {[NoProbe EXCEPT !.fn = f, !.expr = e] : f \in {"gen_expr_code", "make_rvalue_expr"}, e \in Exprs}
    \cup {[NoProbe EXCEPT !.fn = "pack_string", !.expr = StrLit(t)] : t \in Texts}
    \cup {[NoProbe EXCEPT !.fn = "gen_stmt", !.code = c] : c \in ProbeStmts}
    \cup {[NoProbe EXCEPT !.fn = "gen_cond_code", !.expr = e] : e \in ProbeConds}
    \cup {[NoProbe EXCEPT !.fn = "get_ir_type", !.cty = t] : t \in SourceTypes}
    \cup {[NoProbe EXCEPT !.fn = "gen_function", !.scope = sc] : sc \in ProbeScopes}

InitProbe ==
    /\ pc = "body"
    /\ mod = [name |-> "m", types |-> <<>>, globals |-> <<Variable("g", intType)>>,
              functions |-> <<TRUE>>]
    /\ todo = <<>>
    /\ stack = <<StmtFrame, Frame("func_end", 0, 0, 0)>>
    /\ fuel = 1
    /\ gen = ProbeGen
    /\ cur = NoCur
    /\ result = "none"
    /\ pin \in ProbeInputs
    /\ pout = NoOut
    /\ project = NoProject
    /\ runner = NoRun

Out(r) ==
    [done |-> TRUE, val |-> r.val, typ |-> r.typ, lvalue |-> r.lvalue, exc |-> r.exc, err |-> r.err,
     bytes |-> <<>>, irty |-> ""]

\* pack_string on a text
ProbePack ==
    /\ ~pout.done /\ pin.fn = "pack_string"
    /\ pout' = IF IsAscii(pin.expr.val)
                   THEN [NoOut EXCEPT !.done = TRUE, !.bytes = pack_string(pin.expr.val)]
               ELSE [NoOut EXCEPT !.done = TRUE, !.exc = "UnicodeEncodeError"]
    /\ UNCHANGED <<pc, mod, todo, stack, fuel, gen, cur, result, pin, project, runner>>

\* gen_expr_code on an expression
ProbeExpr ==
    /\ ~pout.done /\ pin.fn = "gen_expr_code"
    /\ \E r \in {gen_expr_code(gen, pin.expr)} :
           gen' = r.g /\ pout' = Out(r)
    /\ UNCHANGED <<pc, mod, todo, stack, fuel, cur, result, pin, project, runner>>

\* make_rvalue_expr on an expression
ProbeRvalue ==
    /\ ~pout.done /\ pin.fn = "make_rvalue_expr"
    /\ \E r \in {make_rvalue_expr(gen, pin.expr)} :
           gen' = r.g /\ pout' = Out(r)
    /\ UNCHANGED <<pc, mod, todo, stack, fuel, cur, result, pin, project, runner>>

\* gen_stmt on a statement without sub-statements
ProbeStmt ==
    /\ ~pout.done /\ pin.fn = "gen_stmt"
    /\ \E r \in {gen_stmt_leaf(gen, pin.code)} :
           gen' = r.g /\ pout' = [NoOut EXCEPT !.done = TRUE, !.exc = r.exc]
    /\ UNCHANGED <<pc, mod, todo, stack, fuel, cur, result, pin, project, runner>>

\* the two targets a condition is lowered with
ProbeTargets == newBlock(newBlock(ProbeGen))
ProbeT == Fresh(ProbeTargets) - 1
ProbeF == Fresh(ProbeTargets)

\* gen_cond_code on a condition, with two new blocks as targets
ProbeCond ==
    /\ ~pout.done /\ pin.fn = "gen_cond_code"
    /\ \E r \in {gen_cond_code(ProbeTargets, pin.expr, ProbeT, ProbeF)} :
           gen' = r.g /\ pout' = Out(r)
    /\ UNCHANGED <<pc, mod, todo, stack, fuel, cur, result, pin, project, runner>>

\* get_ir_type on a source type
ProbeIrType ==
    /\ ~pout.done /\ pin.fn = "get_ir_type"
    /\ \E ty \in {get_ir_type(pin.cty)} :
           pout' = IF ty = ""
                       THEN [NoOut EXCEPT !.done = TRUE, !.exc = "SemanticError",
                                          !.err = MsgT("Cannot determine the load type",
                                                       the_type(pin.cty), NoTy)]
                   ELSE [NoOut EXCEPT !.done = TRUE, !.irty = ty]
    /\ UNCHANGED <<pc, mod, todo, stack, fuel, gen, cur, result, pin, project, runner>>

\* the generator when gencode reaches its first function
ProbeModuleGen ==
    gencode_begin(NoGen, [name |-> "m", types |-> <<>>,
                          globals |-> <<Variable("g", intType)>>, functions |-> <<TRUE>>], 1).g

\* gen_function, up to the body, on a function with an inner scope
ProbeFunction ==
    /\ ~pout.done /\ pin.fn = "gen_function"
    /\ \E r \in {gen_function_begin(ProbeModuleGen, [name |-> "fn", innerScope |-> pin.scope])} :
           gen' = r.g /\ pout' = Out(r)
    /\ UNCHANGED <<pc, mod, todo, stack, fuel, cur, result, pin, project, runner>>

NextProbe ==
    ProbePack \/ ProbeExpr \/ ProbeRvalue \/ ProbeStmt \/ ProbeCond \/ ProbeIrType \/ ProbeFunction

SpecProbe == InitProbe /\ [][NextProbe]_vars

(***************************************************************************)
(* The number of instructions of one kind in the module.                   *)
(***************************************************************************)
NumOps(g, op) ==
    Cardinality({bi \in UNION {{<<b, i>> : i \in 1..Len(g.blocks[b].ins)} : b \in 1..Len(g.blocks)} :
                    g.blocks[bi[1]].ins[bi[2]].op = op})

(***************************************************************************)
(* C5.  The control flow of a lowered condition, under an outcome for      *)
(* every comparison operator: the value of the condition, and the block    *)
(* among `stops` that control reaches first from the end of block b.       *)
(***************************************************************************)
Outcomes == [CompareOps -> BOOLEAN]

RECURSIVE Holds(_, _)
Holds(expr, v) ==
    IF expr.kind = "Literal" THEN Truthy(expr)
    ELSE IF expr.op = "or" THEN Holds(expr.sub[1], v) \/ Holds(expr.sub[2], v)
    ELSE IF expr.op = "and" THEN Holds(expr.sub[1], v) /\ Holds(expr.sub[2], v)
    ELSE v[expr.op]

RECURSIVE Reaches(_, _, _, _, _)
Reaches(g, b, v, stops, n) ==
    LET ins == g.blocks[b].ins
        ts == {i \in 1..Len(ins) : IsTerminator(ins[i])}
    IN  IF n = 0 \/ ts = {} THEN 0
        ELSE LET t == ins[CHOOSE i \in ts : \A j \in ts : i <= j]
                 next == IF t.op = "Jump" THEN t.t1
                         ELSE IF t.op = "CJump" THEN (IF v[t.cmp] THEN t.t1 ELSE t.t2)
                         ELSE 0
             IN  IF next = 0 \/ next \in stops THEN next
                 ELSE Reaches(g, next, v, stops, n - 1)

\* the block the condition starts in, and the middle block of its operator
ProbeStart == ProbeTargets.block
ProbeM == Fresh(ProbeTargets) + 1

\* `a or b` and `a and b`, lowered without an error with the targets (T, F):
\* a middle block M is allocated; from the start, control reaches T when a
\* holds and M when it does not (for `and`: M when a holds, F when it does
\* not), so a's true edge (for `and`: its false edge) never leads to the block
\* of b; from M, control reaches T when b holds and F when it does not
Thm_C5 ==
    (/\ pout.done /\ pin.fn = "gen_cond_code"
     /\ pin.expr.kind = "Binop" /\ pin.expr.op \in {"or", "and"}
     /\ pout.exc = "none" /\ gen.diag = ProbeGen.diag) =>
        LET a == pin.expr.sub[1]
            b == pin.expr.sub[2]
            n == Len(gen.blocks)
        IN  /\ ProbeM \in 1..n /\ gen.blocks[ProbeM].fn = gen.function
            /\ gen.blocks[ProbeT].ins = <<>> /\ gen.blocks[ProbeF].ins = <<>>
            /\ \A v \in Outcomes :
                /\ Reaches(gen, ProbeStart, v, {ProbeT, ProbeF, ProbeM}, n)
                       = (IF pin.expr.op = "or"
                              THEN (IF Holds(a, v) THEN ProbeT ELSE ProbeM)
                          ELSE (IF Holds(a, v) THEN ProbeM ELSE ProbeF))
                /\ Reaches(gen, ProbeM, v, {ProbeT, ProbeF}, n)
                       = (IF Holds(b, v) THEN ProbeT ELSE ProbeF)

\* `x < 1 or x == 0` has been lowered: the first comparison jumps to T or M,
\* the second one, in M, to T or F
Wit_C5 ==
    /\ pout.done /\ pin.fn = "gen_cond_code" /\ pin.expr = BinopE(XLess1, "or", XEq0)
    /\ EndsWith(gen, ProbeStart, "CJump")
    /\ LastIns(gen, ProbeStart).t1 = ProbeT /\ LastIns(gen, ProbeStart).t2 = ProbeM
    /\ EndsWith(gen, ProbeM, "CJump")
    /\ LastIns(gen, ProbeM).t1 = ProbeT /\ LastIns(gen, ProbeM).t2 = ProbeF

(***************************************************************************)
(* C6.  make_rvalue_expr on an expression e the expression lowerer lowers  *)
(* to a value `value`: when e.lvalue is set and get_ir_type(e.typ) is an   *)
(* ir type, exactly one instruction is added, a Load of `value` of that    *)
(* type, and it is the result; when e.lvalue is not set, nothing is added  *)
(* and the result is `value`.  (When get_ir_type raises, so does           *)
(* make_rvalue_expr, and no Load is added.)                                *)
(***************************************************************************)
Thm_C6 ==
    (pout.done /\ pin.fn = "make_rvalue_expr") =>
        LET r == gen_expr_code(ProbeGen, pin.expr)
        IN  /\ r.exc # "none" => (pout.exc = r.exc /\ gen = r.g)
            /\ (r.exc = "none" /\ ~r.lvalue) =>
                   /\ pout.exc = "none" /\ pout.val = r.val
                   /\ gen = r.g /\ NumOps(gen, "Load") = NumOps(r.g, "Load")
            /\ (r.exc = "none" /\ r.lvalue /\ get_ir_type(r.typ) # "") =>
                   /\ pout.exc = "none" /\ pout.typ = r.typ
                   /\ NumOps(gen, "Load") = NumOps(r.g, "Load") + 1
                   /\ \E ld \in {LastIns(gen, gen.block)} :
                       /\ ld.op = "Load" /\ ld.args = <<r.val>> /\ ld.ty = get_ir_type(r.typ)
                       /\ gen.blocks = [r.g.blocks EXCEPT ![r.g.block].ins = Append(@, ld)]
                   /\ pout.val = Emitted(gen)
            /\ (r.exc = "none" /\ r.lvalue /\ get_ir_type(r.typ) = "") =>
                   /\ pout.exc = "SemanticError"
                   /\ gen = r.g

\* the byte variable b as a value: one Load of type i8 from its Alloc
Wit_C6 ==
    /\ pout.done /\ pin.fn = "make_rvalue_expr" /\ pin.expr = Identifier("b")
    /\ pout.exc = "none"
    /\ NumOps(gen, "Load") = 1
    /\ LastIns(gen, gen.block).op = "Load" /\ LastIns(gen, gen.block).ty = "i8"
    /\ LastIns(gen, gen.block).args = <<ProbeGen.varMap[<<1, "b">>]>>

(***************************************************************************)
(* C7.  A call of a function with a number of arguments (all of which      *)
(* lower) that is not its number of parameters.                            *)
(***************************************************************************)
WrongCount(call) ==
    /\ call.kind = "FunctionCall"
    /\ InScope(ProbeGen, call.name)
    /\ resolve_symbol(ProbeGen, call.name).cat = "Function"
    /\ Len(call.sub) # Len(resolve_symbol(ProbeGen, call.name).params)
    /\ gen_args(ProbeGen, call.sub, <<>>, <<>>).exc = "none"

\* the text of the diagnostic
Requires(call) ==
    LET tg == resolve_symbol(ProbeGen, call.name)
    IN  tg.package \o "_" \o tg.name \o " requires " \o ToString(Len(tg.params))
            \o " arguments, " \o ToString(Len(call.sub)) \o " given"

\* such a call, as a statement, adds the one diagnostic "<package>_<function>
\* requires N arguments, M given", and as an expression raises the
\* SemanticError of that text; no Call instruction is emitted
Thm_C7 ==
    /\ (pout.done /\ pin.fn = "gen_stmt" /\ pin.code.kind = "ExpressionStatement"
        /\ WrongCount(pin.code.ex[1])) =>
           /\ pout.exc = "none" /\ ~gen.ok
           /\ Len(gen.diag) = Len(ProbeGen.diag) + 1
           /\ gen.diag[Len(gen.diag)].msg = Requires(pin.code.ex[1])
           /\ NumOps(gen, "Call") = 0
    /\ (pout.done /\ pin.fn \in {"gen_expr_code", "make_rvalue_expr"} /\ WrongCount(pin.expr)) =>
           /\ pout.exc = "SemanticError"
           /\ pout.err.msg = Requires(pin.expr)
           /\ NumOps(gen, "Call") = 0

\* f1, of one parameter, called with two arguments
Wit_C7 ==
    /\ pout.done /\ pin.fn = "gen_stmt"
    /\ pin.code = ExpressionStatement(FunctionCall("f1", <<IntLit(1), Identifier("b")>>))
    /\ Len(gen.diag) = 1
    /\ gen.diag[1].msg = "m_f1 requires 1 arguments, 2 given"
    /\ NumOps(gen, "Call") = 0 /\ NumOps(gen, "Const") = 1 /\ NumOps(gen, "Load") = 1

(***************************************************************************)
(* C8.  The index expression a[i], lowered by gen_expr_code: after the     *)
(* code of the base (value `base`) and of the index (value `i`) exactly    *)
(* four instructions follow, Const(S, i32), Mul(i, S, i32), IntToPtr of    *)
(* the product and Add(base, offset, ptr), S being the size of an element; *)
(* the result is the Add, an l-value of the element type of the array.     *)
(***************************************************************************)
Thm_C8 ==
    (pout.done /\ pin.fn = "gen_expr_code" /\ pin.expr.kind = "Index" /\ pout.exc = "none") =>
        LET base == gen_expr_code(ProbeGen, pin.expr.sub[1])
            i == make_rvalue_expr(base.g, pin.expr.sub[2])
            S == size_of(the_type(base.typ).elt[1])
            k == Len(i.g.blocks[i.g.block].ins)
            seq == gen.blocks[gen.block].ins
            at(j) == Val("ins", gen.block, k + j)
        IN  /\ isArray(the_type(base.typ))
            /\ gen.block = i.g.block /\ Len(seq) = k + 4
            /\ gen.blocks = [i.g.blocks EXCEPT ![gen.block].ins = @ \o SubSeq(seq, k + 1, k + 4)]
            /\ seq[k + 1].op = "Const" /\ seq[k + 1].lit = <<S>> /\ seq[k + 1].ty = "i32"
            /\ seq[k + 2].op = "Mul" /\ seq[k + 2].args = <<i.val, at(1)>> /\ seq[k + 2].ty = "i32"
            /\ seq[k + 3].op = "IntToPtr" /\ seq[k + 3].args = <<at(2)>>
            /\ seq[k + 4].op = "Add" /\ seq[k + 4].args = <<base.val, at(3)>> /\ seq[k + 4].ty = "ptr"
            /\ pout.val = at(4)
            /\ pout.lvalue
            /\ pout.typ = the_type(base.typ).elt[1]

\* mat[0][x], of rows of two bytes: the row is scaled by 2, the column by 1
Wit_C8 ==
    /\ pout.done /\ pin.fn = "gen_expr_code" /\ pout.exc = "none"
    /\ pin.expr = Index(Index(Identifier("mat"), IntLit(0)), Identifier("x"))
    /\ pout.lvalue /\ pout.typ = byteType
    /\ [j \in 1..10 |-> gen.blocks[gen.block].ins[Len(ProbeGen.blocks[gen.block].ins) + j].op]
           = <<"Const", "Const", "Mul", "IntToPtr", "Add", "Load", "Const", "Mul", "IntToPtr", "Add">>
    /\ gen.blocks[gen.block].ins[Len(ProbeGen.blocks[gen.block].ins) + 2].lit = <<2>>
    /\ gen.blocks[gen.block].ins[Len(ProbeGen.blocks[gen.block].ins) + 7].lit = <<1>>

(***************************************************************************)
(* C9.  The bytes of a packed text: four bytes that hold the length, least *)
(* significant first, and then the characters of the text, nothing more.   *)
(***************************************************************************)
PackedAs(bytes, txt) ==
    /\ Len(bytes) = 4 + Len(txt)
    /\ \A i \in 1..Len(bytes) : bytes[i] \in 0..255
    /\ bytes[1] + 256 * bytes[2] + 65536 * bytes[3] + 16777216 * bytes[4] = Len(txt)
    /\ \A i \in 1..Len(txt) : bytes[4 + i] = txt[i]

\* pack_string returns such bytes for an ASCII text, and they are the value
\* of the Const a string literal lowers to; "foo" gives 03 00 00 00 66 6F 6F
Thm_C9 ==
    /\ (pout.done /\ pin.fn = "pack_string" /\ IsAscii(pin.expr.val)) =>
           /\ pout.exc = "none"
           /\ PackedAs(pout.bytes, pin.expr.val)
           /\ pin.expr.val = Foo => pout.bytes = <<3, 0, 0, 0, 102, 111, 111>>
    /\ (pout.done /\ pin.fn = "gen_expr_code" /\ pin.expr.kind = "Literal" /\ pin.expr.op = "str"
        /\ IsAscii(pin.expr.val)) =>
           /\ pout.exc = "none"
           /\ NumOps(gen, "Const") = 1
           /\ \E b \in 1..Len(gen.blocks) : \E i \in 1..Len(gen.blocks[b].ins) :
               /\ gen.blocks[b].ins[i].op = "Const"
               /\ PackedAs(gen.blocks[b].ins[i].lit, pin.expr.val)

\* a text of 258 characters has been packed: its length takes two bytes
Wit_C9 ==
    /\ pout.done /\ pin.fn = "pack_string" /\ Len(pin.expr.val) = 258
    /\ SubSeq(pout.bytes, 1, 5) = <<2, 1, 0, 0, 102>>
    /\ Len(pout.bytes) = 262

LvalueError(g, e) ==
    \/ /\ e.kind = "Unop" /\ e.op = "&"
       /\ \E a \in {gen_expr_code(g, e.sub[1])} : a.exc = "none" /\ ~a.lvalue
    \/ /\ e.kind = "Index"
       /\ \E base \in {gen_expr_code(g, e.sub[1])} :
           /\ base.exc = "none" /\ ~base.lvalue /\ isArray(the_type(base.typ))
           /\ \E i \in {make_rvalue_expr(base.g, e.sub[2])} :
               i.exc = "none" /\ do_coerce(i.g, i.val, i.typ, intType).exc = "none"

\* C12 as stated: every l-value error is a SemanticError with a message and
\* a location; in a statement it is recorded in the sink and the statement
\* is left normally, so that lowering continues
Orig_C12 ==
    /\ (pout.done /\ pin.fn = "gen_expr_code" /\ LvalueError(ProbeGen, pin.expr)) =>
           pout.exc = "SemanticError" /\ pout.err.msg # "" /\ pout.err.loc
    /\ (pout.done /\ pin.fn = "gen_stmt" /\ pin.code.kind = "Assignment") =>
           \E lval \in {gen_expr_code(ProbeGen, pin.code.ex[1])} :
               (\/ LvalueError(ProbeGen, pin.code.ex[1])
                \/ lval.exc = "none" /\ LvalueError(lval.g, pin.code.ex[2])
                \/ /\ lval.exc = "none" /\ ~lval.lvalue
                   /\ \E rval \in {make_rvalue_expr(lval.g, pin.code.ex[2])} :
                       /\ rval.exc = "none"
                       /\ do_coerce(rval.g, rval.val, rval.typ, lval.typ).exc = "none") =>
                   /\ pout.exc = "none"
                   /\ Len(gen.diag) = Len(ProbeGen.diag) + 1
                   /\ gen.diag[Len(gen.diag)].msg # "" /\ gen.diag[Len(gen.diag)].loc

(***************************************************************************)
(* C13.  Every Store in the module under construction is marked volatile:  *)
(* the Store of an assignment and the Store that copies a parameter into   *)
(* its Alloc.                                                              *)
(***************************************************************************)
Stores(g) ==
    {bi \in UNION {{<<b, i>> : i \in 1..Len(g.blocks[b].ins)} : b \in 1..Len(g.blocks)} :
        g.blocks[bi[1]].ins[bi[2]].op = "Store"}

\* C13 as stated
Orig_C13 == \A bi \in Stores(gen) : gen.blocks[bi[1]].ins[bi[2]].vol

(***************************************************************************)
(* C14.  A NotImplementedError (a statement or a condition of no known     *)
(* kind, a symbol of a function's scope that is neither parameter nor      *)
(* variable) leaves                                                        *)
(* gencode in the step that raises it, from whatever depth of statements:  *)
(* no continuation of a statement or of the function is left, nothing is   *)
(* added to the diagnostics sink and the module is not marked invalid;     *)
(* after it nothing happens on the generator but a new gencode call.       *)
(***************************************************************************)
Thm_C14 ==
    [][/\ (LoweredStmt /\ cur'.code.kind = "Other") => result' = "NotImplementedError"
       /\ (LoweredStmt /\ cur'.code.kind \in {"If", "While", "For"}
           /\ cur'.code.ex # <<>> /\ cur'.code.ex[1] = X) =>
              result' = "NotImplementedError"
       /\ (pc # "done" /\ result' = "NotImplementedError") =>
              /\ pc' = "done" /\ stack' = <<>>
              /\ gen'.diag = gen.diag /\ gen'.ok = gen.ok
              /\ gen'.function # 0 /\ todo' = todo
       /\ (pc = "done" /\ result = "NotImplementedError") =>
              /\ stack = <<>>
              /\ gen'.call = gen.call + 1 /\ cur' = NoCur /\ result' = "none"]_vars

\* gencode has been left from a statement of no known kind inside a
\* conditional or loop statement; the sink is empty
Wit_C14 ==
    /\ pc = "done" /\ result = "NotImplementedError" /\ stack = <<>>
    /\ cur.code.kind = "Other" /\ cur.b0 = gen.block
    /\ gen.block > gen.m.functions[gen.function].entry + 2
    /\ gen.diag = <<>> /\ gen.ok

(***************************************************************************)
(* C15.  A type cast whose operand lowers as an r-value.  The conversion   *)
(* for a source and a target type, both with the aliases resolved:         *)
(***************************************************************************)
CastTable(from, to) ==
    CASE from.k = "ptr" /\ to.k = "ptr" -> "nothing"
      [] from.k = "int" /\ to.k = "ptr" -> "IntToPtr"
      [] from.k = "ptr" /\ to.k = "int" -> "PtrToInt"
      [] from.k = "byte" /\ to.k = "int" -> "ByteToInt"
      [] from.k = "int" /\ to.k = "byte" -> "IntToByte"
      [] OTHER -> "error"

\* after the code of the operand (make_rvalue_expr), the cast adds nothing
\* and yields the operand's value, or adds the one conversion instruction of
\* the table, applied to the operand's value, and yields it, or raises
\* "Cannot cast X to Y" and adds nothing; in a statement that error is
\* recorded; the result is of the target type and never an l-value
Thm_C15 ==
    /\ (pout.done /\ pin.fn = "gen_expr_code" /\ pin.expr.kind = "TypeCast") =>
           LET ar == make_rvalue_expr(ProbeGen, pin.expr.sub[1])
               from == the_type(ar.typ)
               to == the_type(pin.expr.ty)
               conv == CastTable(from, to)
           IN  ar.exc = "none" =>
                   /\ ~pout.lvalue
                   /\ conv = "nothing" =>
                          /\ pout.exc = "none" /\ gen = ar.g
                          /\ pout.val = ar.val /\ pout.typ = pin.expr.ty
                   /\ conv \notin {"nothing", "error"} =>
                          /\ pout.exc = "none" /\ pout.typ = pin.expr.ty
                          /\ \E ins \in {LastIns(gen, gen.block)} :
                              /\ ins.op = conv /\ ins.args = <<ar.val>>
                              /\ gen.blocks = [ar.g.blocks EXCEPT ![ar.g.block].ins = Append(@, ins)]
                          /\ pout.val = Emitted(gen)
                   /\ conv = "error" =>
                          /\ pout.exc = "SemanticError" /\ pout.err.msg = "Cannot cast"
                          /\ pout.err.t1 = from /\ pout.err.t2 = to
                          /\ gen = ar.g
    /\ (pout.done /\ pin.fn = "gen_stmt" /\ pin.code.kind = "Assignment"
        /\ pin.code.ex[2].kind = "TypeCast") =>
           LET lval == gen_expr_code(ProbeGen, pin.code.ex[1])
               ar == make_rvalue_expr(lval.g, pin.code.ex[2].sub[1])
           IN  (/\ lval.exc = "none" /\ ar.exc = "none"
                /\ CastTable(the_type(ar.typ), the_type(pin.code.ex[2].ty)) = "error") =>
                   /\ pout.exc = "none" /\ ~gen.ok
                   /\ Len(gen.diag) = Len(ProbeGen.diag) + 1
                   /\ gen.diag[Len(gen.diag)].msg = "Cannot cast"
                   /\ gen.blocks = ar.g.blocks

\* a variable of a type named pointer to int, cast to a type named int: a
\* PtrToInt of the loaded pointer
Wit_C15 ==
    /\ pout.done /\ pin.fn = "gen_expr_code"
    /\ pin.expr = TypeCast(NamedType(intType), Identifier("pal"))
    /\ pout.exc = "none" /\ ~pout.lvalue /\ pout.typ = NamedType(intType)
    /\ LastIns(gen, gen.block).op = "PtrToInt"
    /\ gen.blocks[gen.block].ins[Len(gen.blocks[gen.block].ins) - 1].op = "Load"
    /\ LastIns(gen, gen.block).args = <<Val("ins", gen.block, Len(gen.blocks[gen.block].ins) - 1)>>

(***************************************************************************)
(* C16.  The ir-type of a source type, by the type its aliases resolve to. *)
(***************************************************************************)
IrTypeTable(t) ==
    CASE t.k \in {"int", "bool", "double"} -> "i32"
      [] t.k = "byte" -> "i8"
      [] t.k = "ptr" -> "ptr"
      [] OTHER -> "error"

\* get_ir_type returns i32 for int, bool and double, i8 for byte and ptr for
\* a pointer of any kind, whatever aliases name the type, and raises a
\* semantic error with a location for a struct, an array, a string and a
\* function; the Load of a variable has the ir-type of the table, and the
\* use of a variable without an ir-type as a value raises that error
Thm_C16 ==
    /\ (pout.done /\ pin.fn = "get_ir_type") =>
           LET want == IrTypeTable(the_type(pin.cty))
           IN  /\ want # "error" => pout.exc = "none" /\ pout.irty = want
               /\ want = "error" =>
                      /\ pout.exc = "SemanticError" /\ pout.irty = ""
                      /\ pout.err.msg = "Cannot determine the load type" /\ pout.err.loc
               /\ gen = ProbeGen
    /\ (pout.done /\ pin.fn = "make_rvalue_expr" /\ pin.expr.kind = "Identifier") =>
           \A i \in 1..Len(FullScope) :
               FullScope[i].name = pin.expr.name =>
                   LET want == IrTypeTable(the_type(FullScope[i].typ))
                   IN  /\ want # "error" =>
                              /\ pout.exc = "none"
                              /\ LastIns(gen, gen.block).op = "Load"
                              /\ LastIns(gen, gen.block).ty = want
                       /\ want = "error" =>
                              /\ pout.exc = "SemanticError"
                              /\ pout.err.msg = "Cannot determine the load type" /\ pout.err.loc
                              /\ gen = ProbeGen

\* an alias of an alias of byte has given i8
Wit_C16 ==
    /\ pout.done /\ pin.fn = "get_ir_type"
    /\ pin.cty = NamedType(NamedType(byteType))
    /\ pout.exc = "none" /\ pout.irty = "i8"

(***************************************************************************)
(* C17.  A string literal used as a value.                                 *)
(***************************************************************************)
\* the instruction a value stands for
InsAt(g, v) == g.blocks[v.b].ins[v.i]

\* make_rvalue_expr has returned for a string literal
StringValue ==
    /\ pout.done /\ pin.fn = "make_rvalue_expr"
    /\ pin.expr.kind = "Literal" /\ pin.expr.op = "str"
    /\ pout.exc = "none"

\* C17 as stated: the value returned is the constant of the packed bytes,
\* not the Addr
Orig_C17 ==
    StringValue =>
        /\ pout.val.vk = "ins"
        /\ InsAt(gen, pout.val).op = "Const"
        /\ PackedAs(InsAt(gen, pout.val).lit, pin.expr.val)

\* C17 amended: make_rvalue_expr of a string literal returns the emitted
\* Addr instruction, whose operand is the constant of the packed bytes; the
\* constant and the Addr are all that is emitted (no Load)
Thm_C17 ==
    StringValue =>
        /\ pout.val = Emitted(gen) /\ ~pout.lvalue /\ pout.typ = stringType
        /\ InsAt(gen, pout.val).op = "Addr" /\ InsAt(gen, pout.val).ty = "i32"
        /\ \E c \in {InsAt(gen, pout.val).args[1]} :
            /\ c.vk = "ins" /\ c.b = gen.block /\ c.i = pout.val.i - 1
            /\ InsAt(gen, c).op = "Const"
            /\ PackedAs(InsAt(gen, c).lit, pin.expr.val)
            /\ gen.blocks = [ProbeGen.blocks EXCEPT ![ProbeGen.block].ins =
                                 @ \o <<InsAt(gen, c), InsAt(gen, pout.val)>>]

\* "foo" as a value: the Addr of the constant 3,0,0,0,'f','o','o'
Wit_C17 ==
    /\ StringValue /\ pin.expr.val = Foo
    /\ InsAt(gen, pout.val).op = "Addr"
    /\ InsAt(gen, InsAt(gen, pout.val).args[1]).lit = <<3, 0, 0, 0, 102, 111, 111>>

(***************************************************************************)
(* C18.  What one gencode call leaves in the generator and in the builder  *)
(* is not seen by the next call.                                           *)
(***************************************************************************)
\* the functions of an ast.Module that carry a body
RealFunctions(m) == {i \in 1..Len(m.functions) : m.functions[i]}

\* the module of the builder holds the globals and the functions of ast
\* module m and nothing else, and the symbol map only symbols of m
OnlyOf(g, m) ==
    /\ g.m.name = m.name
    /\ Len(g.m.variables) = Len(m.globals)
    /\ \A i \in 1..Len(m.globals) : g.m.variables[i].name = m.globals[i].name
    /\ Len(g.m.functions) = Cardinality(RealFunctions(m))
    /\ \A b \in 1..Len(g.blocks) : g.blocks[b].fn \in 1..Len(g.m.functions)
    /\ \A f \in 1..Len(g.m.functions) :
           g.m.functions[f].entry \in BlocksOf(g, f) /\ g.m.functions[f].epiloog \in BlocksOf(g, f)
    /\ \A k \in DOMAIN g.varMap :
           /\ k[1] \in 0..Len(g.m.functions)
           /\ k[1] = 0 => g.varMap[k].vk = "glob" /\ g.varMap[k].i \in 1..Len(g.m.variables)
           /\ k[1] # 0 => /\ g.varMap[k].vk = "ins" /\ g.varMap[k].b \in BlocksOf(g, k[1])
                          /\ InsAt(g, g.varMap[k]).op = "Alloc"

\* a gencode call starts valid, with a module that holds the globals of its
\* ast module only, with no function, no block and no cursor, and with a
\* symbol map of those globals, whatever the call before has left; and the
\* module a call returns holds only the globals and functions of its ast
\* module, with the cursor cleared
Thm_C18 ==
    [][/\ gen'.call # gen.call =>
              /\ gen'.call = gen.call + 1
              /\ gen'.function = 0 /\ gen'.block = 0 /\ gen'.blocks = <<>>
              /\ gen'.m.functions = <<>> /\ gen'.m.name = mod'.name
              /\ gen'.ok \/ (gen'.m.variables = <<>> /\ Reported(gen') # {})
              /\ gen'.ok => OnlyOf(gen', [mod' EXCEPT !.functions = <<>>])
              /\ \A k \in DOMAIN gen'.varMap : k[1] = 0
              /\ \A i \in 1..Len(gen.diag) : gen'.diag[i] = gen.diag[i]
       /\ (pc # "done" /\ pc' = "done" /\ result' = "module") =>
              /\ gen'.ok /\ Reported(gen') = {}
              /\ gen'.function = 0 /\ gen'.block = 0
              /\ OnlyOf(gen', mod')]_vars

\* the second call has returned a module of one function, after a first
\* call that failed inside a function
Wit_C18 ==
    /\ pc = "done" /\ result = "module" /\ gen.call = 2
    /\ \E i \in 1..Len(gen.diag) : gen.diag[i].call = 1 /\ gen.diag[i].fn # 0
    /\ Len(gen.m.functions) = 1 /\ Len(gen.m.variables) = 1
    /\ \A b \in 1..Len(gen.blocks) : gen.blocks[b].fn = 1

(***************************************************************************)
(* C19.  The if statement.                                                 *)
(***************************************************************************)
\* the blocks a condition is lowered into: the block it starts in and the
\* blocks it creates, which follow the n blocks there were
CondBlocks(g, start, n) == {start} \cup (n + 1)..Len(g.blocks)

\* from block `start` with `had` instructions a condition has been lowered
\* with the targets (bbtrue, bbfalse): what was in the start block is kept,
\* the block ends with a terminator, and the jumps of the condition go to
\* bbtrue, to bbfalse or to a block of the condition, and to one of the two
\* at least
LoweredCond(g, start, had, n, bbtrue, bbfalse) ==
    /\ Len(g.blocks[start].ins) > had
    /\ IsTerminator(LastIns(g, start))
    /\ \A i \in 1..(Len(g.blocks[start].ins) - 1) :
           i > had => ~IsTerminator(g.blocks[start].ins[i])
    /\ \A b \in CondBlocks(g, start, n) : \A i \in 1..Len(g.blocks[b].ins) :
           (b # start \/ i > had) =>
               Targets(g.blocks[b].ins[i]) \subseteq {bbtrue, bbfalse} \cup (n + 1)..Len(g.blocks)
    /\ \E b \in CondBlocks(g, start, n) :
           g.blocks[b].ins # <<>> /\ Targets(LastIns(g, b)) \cap {bbtrue, bbfalse} # {}

\* an if statement whose condition lowers allocates three blocks T, F, J,
\* leaves the block that was current ending with the terminator of the
\* condition, whose jumps lead to T and F, and goes on in T, with F and J
\* empty and without an edge to J; when the true statement is done the
\* current block gets Jump(J) and F, still empty, is made current; when the
\* false statement is done the current block gets Jump(J) and J, still
\* empty, is made current
Thm_C19 ==
    [][/\ (LoweredStmt /\ cur'.code.kind = "If" /\ cur'.exc = "none") =>
              LET n == Len(gen.blocks)
                  T == n + 1
                  F == n + 2
                  J == n + 3
              IN  /\ Len(gen'.blocks) >= J
                  /\ \A b \in {T, F, J} : gen'.blocks[b] = NewBlockRec(gen.function)
                  /\ \A b \in 1..n : b # gen.block => gen'.blocks[b] = gen.blocks[b]
                  /\ SubSeq(gen'.blocks[gen.block].ins, 1, cur'.n0) = gen.blocks[gen.block].ins
                  /\ LoweredCond(gen', gen.block, cur'.n0, J, T, F)
                  /\ Pred(gen', J) = {}
                  /\ gen'.block = T
                  /\ stack' = <<StmtFrame, Frame("if_true_done", J, F, 0)>> \o stack
       /\ (AtFrame("if_true_done") /\ stack' # stack) =>
              LET J == Head(stack).a
                  F == Head(stack).b
              IN  /\ gen'.blocks = [gen.blocks EXCEPT ![gen.block].ins = Append(@, Jump(J))]
                  /\ gen.blocks[F].ins = <<>>
                  /\ gen'.block = F
                  /\ stack' = <<StmtFrame, Frame("if_false_done", J, 0, 0)>> \o Tail(stack)
       /\ (AtFrame("if_false_done") /\ stack' # stack) =>
              LET J == Head(stack).a
              IN  /\ gen'.blocks = [gen.blocks EXCEPT ![gen.block].ins = Append(@, Jump(J))]
                  /\ gen.blocks[J].ins = <<>>
                  /\ gen'.block = J
                  /\ stack' = Tail(stack)]_vars

\* `if (x < 1 and x == 0) x := 0; else ;` has been lowered: the block of the
\* condition's second comparison follows J, T holds the Store and Jump(J),
\* F holds Jump(J), and J is current and empty
Wit_C19 ==
    \E T \in 1..Len(gen.blocks) :
        /\ pc = "body" /\ gen.block = T + 2 /\ Len(gen.blocks) = T + 3
        /\ gen.blocks[T + 2].ins = <<>>
        /\ Pred(gen, T + 2) = {T, T + 1}
        /\ gen.blocks[T + 1].ins = <<Jump(T + 2)>>
        /\ Len(gen.blocks[T].ins) = 3 /\ gen.blocks[T].ins[2].op = "Store"
        /\ LastIns(gen, T) = Jump(T + 2)
        /\ Succ(gen, T + 3) = {T, T + 1}
        /\ \E s \in 1..(T - 1) : Succ(gen, s) = {T + 3, T + 1}
        /\ gen.diag = <<>>

(***************************************************************************)
(* C20.  The while statement.                                              *)
(***************************************************************************)
\* a while statement whose condition lowers allocates the blocks body, test
\* and done, closes the block that was current with Jump(test), which is the
\* only edge to test then, lowers the condition from the empty block test
\* with the targets (body, done), and goes on in body, with body and done
\* empty and with edges to done from blocks of the condition only; no step
\* inside the loop adds an edge to done; when the body is done the current
\* block gets Jump(test) and done, still empty, is made current
Thm_C20 ==
    [][/\ (LoweredStmt /\ cur'.code.kind = "While" /\ cur'.exc = "none") =>
              LET n == Len(gen.blocks)
                  body == n + 1
                  test == n + 2
                  done == n + 3
              IN  /\ Len(gen'.blocks) >= done
                  /\ \A b \in {body, done} : gen'.blocks[b] = NewBlockRec(gen.function)
                  /\ gen'.blocks[test].fn = gen.function
                  /\ \A b \in 1..n : gen'.blocks[b] =
                         IF b = gen.block
                             THEN [gen.blocks[b] EXCEPT !.ins = Append(@, Jump(test))]
                         ELSE gen.blocks[b]
                  /\ Pred(gen', test) = {gen.block}
                  /\ LoweredCond(gen', test, 0, done, body, done)
                  /\ Pred(gen', done) \subseteq CondBlocks(gen', test, done)
                  /\ gen'.block = body
                  /\ stack' = <<StmtFrame, Frame("while_done", test, done, 0)>> \o stack
       /\ \A i \in 1..Len(stack) :
              stack[i].k = "while_done" => Pred(gen', stack[i].b) = Pred(gen, stack[i].b)
       /\ (AtFrame("while_done") /\ stack' # stack) =>
              LET test == Head(stack).a
                  done == Head(stack).b
              IN  /\ gen'.blocks = [gen.blocks EXCEPT ![gen.block].ins = Append(@, Jump(test))]
                  /\ gen.blocks[done].ins = <<>>
                  /\ gen'.block = done
                  /\ stack' = Tail(stack)]_vars

\* `while (x < 1) x := 0;` has been lowered: test ends with the CJump to
\* body and done, body holds the Store and Jump(test), the edges to test
\* come from the block before the loop and from body, the edge to done from
\* test, and done is current and empty
Wit_C20 ==
    \E body \in 2..Len(gen.blocks) :
        /\ pc = "body" /\ gen.block = body + 2 /\ Len(gen.blocks) = body + 2
        /\ gen.blocks[body + 2].ins = <<>>
        /\ EndsWith(gen, body + 1, "CJump")
        /\ Succ(gen, body + 1) = {body, body + 2}
        /\ Len(gen.blocks[body].ins) = 3 /\ gen.blocks[body].ins[2].op = "Store"
        /\ LastIns(gen, body) = Jump(body + 1)
        /\ Pred(gen, body + 2) = {body + 1}
        /\ Pred(gen, body + 1) = {body - 1, body}
        /\ gen.diag = <<>>

ParamsUpto(sc, i) == {j \in 1..i : sc[j].isParameter}
\* where the Alloc of symbol i is: after the Allocs and the Stores before it
AllocAt(sc, i) == i + Cardinality(ParamsUpto(sc, i - 1))

\* for a scope of parameters and variables of well-formed types: the block
\* opened for the body holds, in scope order, one Alloc of the size of the
\* type for every symbol, directly followed for a parameter by the Store of
\* the ir parameter to that Alloc, and nothing else; every symbol is bound
\* to its Alloc; the signature holds one parameter typed i32 for every
\* source parameter, in their order; and the body starts in that block
Thm_C22 ==
    (/\ pout.done /\ pin.fn = "gen_function"
     /\ \A i \in 1..Len(pin.scope) :
            type_ok(pin.scope[i].typ) /\ pin.scope[i].cat = "Variable") =>
        LET sc == pin.scope
            f == Len(gen.m.functions)
            first == gen.block
            ins == gen.blocks[first].ins
            ps == ParamsUpto(sc, Len(sc))
        IN  /\ pout.exc = "none" /\ gen.diag = <<>>
            /\ f = 1 /\ gen.function = f
            /\ first \notin {gen.m.functions[f].entry, gen.m.functions[f].epiloog}
            /\ gen.blocks[gen.m.functions[f].entry].ins = <<Jump(first)>>
            /\ gen.blocks[gen.m.functions[f].epiloog].ins = <<>>
            /\ Len(ins) = Len(sc) + Cardinality(ps)
            /\ \A i \in 1..Len(sc) :
                   /\ ins[AllocAt(sc, i)].op = "Alloc"
                   /\ ins[AllocAt(sc, i)].lit = <<size_of(sc[i].typ)>>
                   /\ gen.varMap[<<f, sc[i].name>>] = Val("ins", first, AllocAt(sc, i))
                   /\ sc[i].isParameter =>
                          /\ ins[AllocAt(sc, i) + 1].op = "Store"
                          /\ ins[AllocAt(sc, i) + 1].args =
                                 <<Val("param", f, Cardinality(ParamsUpto(sc, i))),
                                   Val("ins", first, AllocAt(sc, i))>>
                          /\ gen.m.functions[f].params[Cardinality(ParamsUpto(sc, i))] =
                                 [name |-> sc[i].name, ty |-> "i32"]
            /\ Len(gen.m.functions[f].params) = Cardinality(ps)
            /\ DOMAIN gen.varMap = {<<0, "g">>} \cup {<<f, sc[i].name>> : i \in 1..Len(sc)}

\* a byte parameter, a local array and an int parameter: Alloc(1), Store,
\* Alloc(8), Alloc(4), Store, and the signature (y, x)
Wit_C22 ==
    /\ pout.done /\ pin.fn = "gen_function" /\ pout.exc = "none"
    /\ pin.scope = <<Parameter("y", byteType), Variable("arr", ArrayType(intType)),
                     Parameter("x", intType)>>
    /\ Len(gen.blocks[gen.block].ins) = 5
    /\ gen.blocks[gen.block].ins[1].lit = <<1>> /\ gen.blocks[gen.block].ins[3].lit = <<8>>
    /\ gen.blocks[gen.block].ins[5].op = "Store"
    /\ gen.blocks[gen.block].ins[5].args = <<Val("param", 1, 2), Val("ins", gen.block, 4)>>
    /\ gen.m.functions[1].params = <<[name |-> "y", ty |-> "i32"], [name |-> "x", ty |-> "i32"]>>

(***************************************************************************)
(* C23.  The functions and the global variables of a module.               *)
(***************************************************************************)
\* the variable an identifier may resolve to has its storage in the symbol
\* map: a variable of the module, or of the function that is current
Bound(g, sym) ==
    /\ SymKey(sym) \in DOMAIN g.varMap
    /\ sym.fn = 0 =>
           /\ g.varMap[SymKey(sym)].vk = "glob"
           /\ g.m.variables[g.varMap[SymKey(sym)].i] = [name |-> sym.name, size |-> size_of(sym.typ)]
    /\ sym.fn # 0 =>
           /\ sym.fn = g.function /\ g.varMap[SymKey(sym)].vk = "ins"
           /\ InsAt(g, g.varMap[SymKey(sym)]).op = "Alloc"

\* a gencode call whose types are well-formed has, before its first
\* function, appended one ir variable of the size of the type for every
\* variable of the module, in order, and bound it; an ir function is made
\* only for a function that carries a body, one for each that is reached;
\* and while a body is lowered every variable in scope (of the module or of
\* the function) is bound, so that no identifier misses its storage
Thm_C23 ==
    [][/\ (gen'.call # gen.call /\ gen'.ok) =>
              /\ gen'.m.functions = <<>> /\ gen'.blocks = <<>>
              /\ gen'.m.variables =
                     [i \in 1..Len(mod'.globals) |->
                         [name |-> mod'.globals[i].name, size |-> size_of(mod'.globals[i].typ)]]
              /\ \A i \in 1..Len(mod'.globals) :
                     /\ <<0, mod'.globals[i].name>> \in DOMAIN gen'.varMap
                     /\ gen'.varMap[<<0, mod'.globals[i].name>>] = Val("glob", 0, i)
              /\ todo' = SelectSeq(Upto(Len(mod'.functions)), LAMBDA i : mod'.functions[i])
       /\ Len(gen'.m.functions) # Len(gen.m.functions) =>
              \/ gen'.call # gen.call
              \/ /\ pc = "functions" /\ todo # <<>> /\ mod.functions[Head(todo)]
                 /\ Len(gen'.m.functions) = Len(gen.m.functions) + 1
                 /\ Len(gen'.m.functions) + Len(todo) = Cardinality(RealFunctions(mod)) + 1
       /\ pc' = "body" =>
              /\ gen'.function = Len(gen'.m.functions) /\ gen'.function # 0
              /\ \A i \in 1..Len(mod'.globals) : Bound(gen', mod'.globals[i])
              /\ \A n \in DOMAIN gen'.scope :
                     gen'.scope[n].cat = "Variable" =>
                         /\ Bound(gen', gen'.scope[n])
                         /\ gen_identifier(gen', Identifier(n)).exc = "none"
                         /\ gen_identifier(gen', Identifier(n)).val = gen'.varMap[SymKey(gen'.scope[n])]]_vars

\* the second of three functions carries no body: two ir functions have
\* been made, the second of them for the third function, whose body is
\* being lowered with the global and its locals bound
Wit_C23 ==
    /\ pc = "body" /\ mod.functions = <<TRUE, FALSE, TRUE>>
    /\ Len(gen.m.functions) = 2 /\ gen.function = 2 /\ todo = <<>>
    /\ gen.m.variables = <<[name |-> "g", size |-> 4]>>
    /\ DOMAIN gen.varMap = {<<0, "g">>, <<1, "x">>, <<1, "b">>, <<2, "x">>, <<2, "b">>}
    /\ gen.diag = <<>>

(***************************************************************************)
(* C24.  Address-of.                                                       *)
(***************************************************************************)
AddressOf(e) == e.kind = "Unop" /\ e.op = "&"

\* `&e`, for an operand e that lowers: when e is an l-value the result is
\* the value e lowered to, of type pointer to the type of e and no l-value,
\* and nothing is emitted after the code of e, also when the result is used
\* as a value; when e is no l-value "No valid lvalue" is raised without a
\* value, and a statement records it; `p := &x` of two variables emits the
\* Store of the storage of x to the storage of p and nothing else
Thm_C24 ==
    /\ (pout.done /\ pin.fn \in {"gen_expr_code", "make_rvalue_expr"} /\ AddressOf(pin.expr)) =>
           \E ra \in {gen_expr_code(ProbeGen, pin.expr.sub[1])} :
               ra.exc = "none" =>
                   /\ ra.lvalue =>
                          /\ pout.exc = "none" /\ pout.val = ra.val
                          /\ pout.typ = PointerType(ra.typ) /\ ~pout.lvalue
                          /\ gen = ra.g
                          /\ pin.expr.sub[1].kind = "Identifier" => gen = ProbeGen
                   /\ ~ra.lvalue =>
                          /\ pout.exc = "SemanticError" /\ pout.err.msg = "No valid lvalue"
                          /\ pout.val = NoVal /\ gen = ra.g
    /\ (pout.done /\ pin.fn = "gen_stmt" /\ pin.code.kind = "Assignment"
        /\ AddressOf(pin.code.ex[2])) =>
           \E lval \in {gen_expr_code(ProbeGen, pin.code.ex[1])} :
           \E ra \in {gen_expr_code(lval.g, pin.code.ex[2].sub[1])} :
               (lval.exc = "none" /\ ra.exc = "none") =>
                   /\ NumOps(gen, "Load") = NumOps(lval.g, "Load")
                   /\ ~ra.lvalue =>
                          /\ Len(gen.diag) = Len(ProbeGen.diag) + 1
                          /\ gen.diag[Len(gen.diag)].msg = "No valid lvalue"
                          /\ gen.blocks = ra.g.blocks
                   /\ (pin.code.ex[1] = Identifier("p") /\ pin.code.ex[2].sub[1] = X) =>
                          /\ gen.diag = <<>>
                          /\ gen.blocks = [ProbeGen.blocks EXCEPT ![ProbeGen.block].ins =
                                 Append(@, Store(ProbeGen.varMap[<<1, "x">>],
                                                 ProbeGen.varMap[<<1, "p">>], TRUE))]

\* `p := &x` has been lowered: the Store of the Alloc of x to the Alloc of p
Wit_C24 ==
    /\ pout.done /\ pin.fn = "gen_stmt"
    /\ pin.code = Assignment(Identifier("p"), Unop("&", X))
    /\ pout.exc = "none" /\ gen.diag = <<>>
    /\ LastIns(gen, gen.block).op = "Store"
    /\ InsAt(gen, LastIns(gen, gen.block).args[1]).name = "var_x"
    /\ InsAt(gen, LastIns(gen, gen.block).args[2]).name = "var_p"
    /\ NumOps(gen, "Load") = 0

(***************************************************************************)
(* C25.  A comparison as a condition.                                      *)
(***************************************************************************)
\* a comparison whose operands lower as r-values, the first and then the
\* second: when their types are equal (aliases resolved) the CJump of the
\* two values with the operator and the targets (T, F) is appended to their
\* code, the only CJump, and nothing is reported; when the types differ
\* "Types unequal" is raised with the two types and nothing is appended
Thm_C25 ==
    (/\ pout.done /\ pin.fn = "gen_cond_code"
     /\ pin.expr.kind = "Binop" /\ pin.expr.op \in CompareOps) =>
        \E ta \in {make_rvalue_expr(ProbeTargets, pin.expr.sub[1])} :
        \E tb \in {make_rvalue_expr(ta.g, pin.expr.sub[2])} :
            (ta.exc = "none" /\ tb.exc = "none") =>
                /\ the_type(ta.typ) = the_type(tb.typ) =>
                       /\ pout.exc = "none" /\ gen.diag = <<>>
                       /\ gen.blocks = [tb.g.blocks EXCEPT ![tb.g.block].ins =
                              Append(@, CJump(ta.val, pin.expr.op, tb.val, ProbeT, ProbeF))]
                       /\ NumOps(gen, "CJump") = 1
                /\ the_type(ta.typ) # the_type(tb.typ) =>
                       /\ pout.exc = "SemanticError" /\ pout.err.msg = "Types unequal"
                       /\ pout.err.t1 = ta.typ /\ pout.err.t2 = tb.typ
                       /\ gen = tb.g
                       /\ NumOps(gen, "CJump") = 0

\* `x <= al`, an int and a variable of a type named int: two Loads and the
\* CJump of them
Wit_C25 ==
    /\ pout.done /\ pin.fn = "gen_cond_code"
    /\ pin.expr = BinopE(X, "<=", Identifier("al"))
    /\ pout.exc = "none"
    /\ Len(gen.blocks[gen.block].ins) >= 3
    /\ LastIns(gen, gen.block).op = "CJump" /\ LastIns(gen, gen.block).cmp = "<="
    /\ LastIns(gen, gen.block).t1 = ProbeT /\ LastIns(gen, gen.block).t2 = ProbeF
    /\ InsAt(gen, LastIns(gen, gen.block).args[1]).op = "Load"
    /\ InsAt(gen, LastIns(gen, gen.block).args[2]).op = "Load"
    /\ LastIns(gen, gen.block).args[1] # LastIns(gen, gen.block).args[2]

(***************************************************************************)
(* C26.  The types of the arguments of a call.                             *)
(***************************************************************************)
\* the arguments whose type is not the type of their parameter
Mismatches(typs, ptypes) == {i \in 1..Len(typs) : the_type(typs[i]) # the_type(ptypes[i])}

\* a call of a function with as many arguments as parameters, all of which
\* lower as r-values
TypedCall(call) ==
    /\ call.kind = "FunctionCall"
    /\ call.name \in DOMAIN ModuleScope /\ ModuleScope[call.name].cat = "Function"
    /\ Len(call.sub) = Len(ModuleScope[call.name].params)
    /\ gen_args(ProbeGen, call.sub, <<>>, <<>>).exc = "none"

\* such a call: when every argument has the type of its parameter, one Call
\* named package, "_", function, with the values of the arguments in order
\* and of ir-type i32, is appended to the code of the arguments, and is the
\* result, of the return type of the function and no l-value; otherwise
\* "Got, expected" is raised for the first argument that differs, with its
\* type and that of the parameter (an int argument for a pointer parameter
\* included), and no Call is emitted; a statement records that error
Thm_C26 ==
    /\ (pout.done /\ pin.fn = "gen_expr_code" /\ TypedCall(pin.expr)) =>
           \E ra \in {gen_args(ProbeGen, pin.expr.sub, <<>>, <<>>)} :
           \E tg \in {ModuleScope[pin.expr.name]} :
           \E bad \in {Mismatches(ra.typs, tg.params)} :
               /\ bad = {} =>
                      /\ pout.exc = "none" /\ pout.typ = tg.ret /\ ~pout.lvalue
                      /\ pout.val = Emitted(gen)
                      /\ \E call \in {LastIns(gen, gen.block)} :
                          /\ call.op = "Call" /\ call.cmp = tg.package \o "_" \o tg.name
                          /\ call.args = ra.vals /\ call.ty = "i32"
                          /\ gen.blocks = [ra.g.blocks EXCEPT ![ra.g.block].ins = Append(@, call)]
               /\ bad # {} =>
                      /\ pout.exc = "SemanticError" /\ pout.err.msg = "Got, expected"
                      /\ pout.err.n \in bad /\ \A i \in bad : pout.err.n <= i
                      /\ pout.err.t1 = ra.typs[pout.err.n] /\ pout.err.t2 = tg.params[pout.err.n]
                      /\ gen = ra.g
                      /\ NumOps(gen, "Call") = 0
    /\ (pout.done /\ pin.fn = "gen_stmt" /\ pin.code.kind = "ExpressionStatement"
        /\ TypedCall(pin.code.ex[1])) =>
           \E ra \in {gen_args(ProbeGen, pin.code.ex[1].sub, <<>>, <<>>)} :
               IF Mismatches(ra.typs, ModuleScope[pin.code.ex[1].name].params) = {}
                   THEN gen.diag = <<>> /\ NumOps(gen, "Call") = 1
               ELSE /\ Len(gen.diag) = 1 /\ gen.diag[1].msg = "Got, expected"
                    /\ NumOps(gen, "Call") = 0 /\ gen.blocks = ra.g.blocks

\* f2(1, 1), of a function of an int and a byte: both arguments are lowered,
\* the second is refused, and there is no Call
Wit_C26 ==
    /\ pout.done /\ pin.fn = "gen_expr_code"
    /\ pin.expr = FunctionCall("f2", <<IntLit(1), IntLit(1)>>)
    /\ pout.exc = "SemanticError" /\ pout.err.msg = "Got, expected" /\ pout.err.n = 2
    /\ pout.err.t1 = intType /\ pout.err.t2 = byteType
    /\ NumOps(gen, "Const") = 2 /\ NumOps(gen, "Call") = 0

(***************************************************************************)
(* C27.  No instruction after a terminator.                                *)
(***************************************************************************)
\* block b of generator g holds a terminator
Closed(g, b) == \E i \in 1..Len(g.blocks[b].ins) : IsTerminator(g.blocks[b].ins[i])

\* C27 as stated: a statement of a function body starts in a block without
\* a terminator, and within a gencode call a block that holds a terminator
\* gets no further instruction
Orig_C27 ==
    [][/\ (LoweredStmt /\ pc = "body") => ~Closed(gen, gen.block)
       /\ gen'.call = gen.call =>
              \A b \in 1..Len(gen.blocks) :
                  Closed(gen, b) => gen'.blocks[b].ins = gen.blocks[b].ins]_vars


(***************************************************************************)
(* tasks.py: Project, Target and TaskRunner.  Targets are named 1, 2, ...  *)
(* in the order they are added, so that project.targets, a dict keyed by   *)
(* the name, is a sequence.  No target carries a task.                     *)
(***************************************************************************)
Target(name) == [name |-> name, tasks |-> <<>>, dependencies |-> {}]

\* TaskError messages, without the names formatted into them
NotFound == "target not found"
LoopDetected == "Dependency loop detected"

InProject(p, target_name) == target_name \in DOMAIN p.targets

\* the add_dependency calls made so far on the first i targets (no name twice)
RECURSIVE DepsUpto(_, _)
DepsUpto(p, i) ==
    IF i = 0 THEN 0 ELSE DepsUpto(p, i - 1) + Cardinality(p.targets[i].dependencies)

NumDeps(p) == DepsUpto(p, Len(p.targets))

\* Project.dependencies: the dependencies of a target and, recursively, theirs
RECURSIVE dependencies(_, _)
dependencies(p, target_name) ==
    LET target == p.targets[target_name]
    IN  UNION {dependencies(p, dep) : dep \in target.dependencies}
            \cup target.dependencies

\* the first lines of Project.dfs on target_name: it is added to state and looked
\* up; the loop over its dependencies is left to DfsStep and DfsReturn
DfsEnter(r, p, target_name) ==
    LET r1 == [r EXCEPT !.state = @ \cup {target_name}]
    IN  IF ~InProject(p, target_name)
        THEN [r1 EXCEPT !.pc = "done", !.dfs = <<>>, !.error = NotFound, !.result = 1]
        ELSE [r1 EXCEPT !.pc = "dfs",
                        !.dfs = <<[target_name |-> target_name,
                                   deps |-> p.targets[target_name].dependencies]>> \o @]

\* Project.add_target with a Target of the next unused name
AddTarget ==
    /\ pc = "idle" /\ runner.pc = "idle"
    /\ Len(project.targets) < MaxTargets
    /\ project' = [project EXCEPT !.targets = Append(@, Target(Len(@) + 1))]
    /\ UNCHANGED <<pc, mod, todo, stack, fuel, gen, cur, result, pin, pout, runner>>

\* Target.add_dependency: the name need not be that of a target of the project
AddDependency ==
    /\ pc = "idle" /\ runner.pc = "idle"
    /\ NumDeps(project) < MaxDeps
    /\ \E t \in DOMAIN project.targets, target_name \in 1..MaxTargets :
           /\ target_name \notin project.targets[t].dependencies
           /\ project' = [project EXCEPT !.targets[t].dependencies = @ \cup {target_name}]
    /\ UNCHANGED <<pc, mod, todo, stack, fuel, gen, cur, result, pin, pout, runner>>

\* TaskRunner.run(project, [1]) up to the first dfs call of check_target
Run ==
    /\ pc = "idle" /\ runner.pc = "idle"
    /\ runner' = DfsEnter([NoRun EXCEPT !.target = 1], project, 1)
    /\ UNCHANGED <<pc, mod, todo, stack, fuel, gen, cur, result, pin, pout, project>>

\* one round of the loop of Project.dfs; a set is iterated in any order
DfsStep ==
    /\ runner.pc = "dfs"
    /\ \E dep \in Head(runner.dfs).deps :
           runner' =
               IF dep \in runner.state
               THEN [runner EXCEPT !.pc = "done", !.dfs = <<>>,
                                   !.error = LoopDetected, !.result = 1]
               ELSE DfsEnter([runner EXCEPT !.dfs[1].deps = @ \ {dep}], project, dep)
    /\ UNCHANGED <<pc, mod, todo, stack, fuel, gen, cur, result, pin, pout, project>>

\* the loop of Project.dfs is over: the call returns, check_target after the last
DfsReturn ==
    /\ runner.pc = "dfs"
    /\ Head(runner.dfs).deps = {}
    /\ runner' = [runner EXCEPT !.dfs = Tail(@),
                                !.pc = IF Len(runner.dfs) = 1 THEN "checked" ELSE "dfs"]
    /\ UNCHANGED <<pc, mod, todo, stack, fuel, gen, cur, result, pin, pout, project>>

\* the rest of TaskRunner.run: the targets to build are collected and sorted and
\* their tasks run; there are none, so the order has no effect
RunTasks ==
    /\ runner.pc = "checked"
    /\ runner' = [runner EXCEPT !.pc = "done",
                                !.target_list = dependencies(project, runner.target)
                                                    \cup {runner.target},
                                !.result = 0]
    /\ UNCHANGED <<pc, mod, todo, stack, fuel, gen, cur, result, pin, pout, project>>

NextTasks == AddTarget \/ AddDependency \/ Run \/ DfsStep \/ DfsReturn \/ RunTasks

SpecTasks == Init /\ [][NextTasks]_vars

(***************************************************************************)
(* C28                                                                     *)
(***************************************************************************)
\* the targets reachable from the targets of S along dependencies
RECURSIVE TargetsFrom(_, _)
TargetsFrom(p, S) ==
    LET T == S \cup UNION {p.targets[n].dependencies : n \in S \cap DOMAIN p.targets}
    IN  IF T = S THEN S ELSE TargetsFrom(p, T)

\* every dependency names a target of the project
AllFound(p) == \A n \in DOMAIN p.targets : p.targets[n].dependencies \subseteq DOMAIN p.targets

\* a dependency cycle is reachable from target t
CycleFrom(p, t) ==
    \E n \in TargetsFrom(p, {t}) : n \in TargetsFrom(p, p.targets[n].dependencies)

\* some target is reachable from t along two different paths: two dependencies
\* of one reachable target lead to it, the dependency itself included
TwoPaths(p, t) ==
    \E n \in TargetsFrom(p, {t}) : \E d1, d2 \in p.targets[n].dependencies :
        d1 # d2 /\ TargetsFrom(p, {d1}) \cap TargetsFrom(p, {d2}) # {}

\* C28: in a project whose dependencies all name targets, a finished run on
\* target 1 has raised the 'Dependency loop detected' error if and only if a
\* cycle is reachable from target 1; when no cycle is reachable and some target
\* is reachable from target 1 along two different paths, no error was raised and
\* the run has returned 0.
Orig_C28 ==
    (runner.pc = "done" /\ InProject(project, runner.target) /\ AllFound(project)) =>
        /\ runner.error = LoopDetected <=> CycleFrom(project, runner.target)
        /\ (~CycleFrom(project, runner.target) /\ TwoPaths(project, runner.target)) =>
               (runner.error = "" /\ runner.result = 0)

====
